---- MODULE Spec2Model ----
(***************************************************************************)
(* A model of weld's LLVM code generator (src/weld/llvm.rs).               *)
(*                                                                         *)
(* The generator is modelled at two levels:                                *)
(*   - the compile-time state of one LlvmGenerator (type registry, code    *)
(*     buffers, visited set) and the operations that mutate it;            *)
(*   - the run-time behaviour of the code it emits (loop wrapper and       *)
(*     trampolines), one action per emitted basic block.                   *)
(* Emitted text is modelled as structured records: names are the strings   *)
(* the format! calls build, instructions are records of their operands.    *)
(***************************************************************************)
EXTENDS Integers, Sequences, FiniteSets, TLC

VARIABLES gen, hist, program, hash_order, call, run

vars == <<gen, hist, program, hash_order, call, run>>

(***************************************************************************)
(* Bounds of the model.                                                    *)
(***************************************************************************)
MaxRequests == 3
MaxFields == 2
MaxCalls == 2
WordBits == 13
MaxTasks == 3

(***************************************************************************)
(* IR types (ast::Type).  Every type is a record of one shape:             *)
(*   k  - the constructor, for builders the BuilderKind constructor        *)
(*   s  - the ScalarKind of Scalar and Simd                                *)
(*   a  - the component types                                              *)
(*   op - the merge operator of Merger, DictMerger and VecMerger           *)
(***************************************************************************)
Ty(k, s, a, op) == [k |-> k, s |-> s, a |-> a, op |-> op]
Scalar(s) == Ty("Scalar", s, <<>>, "")
Simd(s) == Ty("Simd", s, <<>>, "")
Struct(fields) == Ty("Struct", "", fields, "")
Vector(elem) == Ty("Vector", "", <<elem>>, "")
Dict(key, value) == Ty("Dict", "", <<key, value>>, "")
Appender(t) == Ty("Appender", "", <<t>>, "")
Merger(t, op) == Ty("Merger", "", <<t>>, op)
DictMerger(kt, vt, op) == Ty("DictMerger", "", <<kt, vt>>, op)
GroupMerger(kt, vt) == Ty("GroupMerger", "", <<kt, vt>>, "")
VecMerger(t, op) == Ty("VecMerger", "", <<t>>, op)

ScalarKind == {"Bool", "I8", "I32", "I64", "F32", "F64"}
BuilderKinds == {"Appender", "Merger", "DictMerger", "GroupMerger", "VecMerger"}
IsBuilder(ty) == ty.k \in BuilderKinds

(***************************************************************************)
(* util::IdGenerator::next: the prefix followed by the counter.            *)
(***************************************************************************)
IdGeneratorNext(prefix, counter) == prefix \o ToString(counter)

(* name.replace("%", "") of a generated type name: the leading % is the    *)
(* only one a type name holds.                                             *)
StripPercent(name) ==
    IF Len(name) > 0 /\ SubSeq(name, 1, 1) = "%" THEN SubSeq(name, 2, Len(name)) ELSE name

(***************************************************************************)
(* llvm_binop: the opcode of a binary operator on a type, "" for the       *)
(* unsupported pairs (the weld_err! arm).                                  *)
(***************************************************************************)
IntKinds == {"I8", "I32", "I64"}
FloatKinds == {"F32", "F64"}

llvm_binop(op_kind, ty) ==
    LET s == ty.s
        sc == ty.k = "Scalar"
        sv == ty.k \in {"Scalar", "Simd"}
    IN  CASE op_kind = "Add" /\ sv /\ s \in IntKinds -> "add"
          [] op_kind = "Add" /\ sv /\ s \in FloatKinds -> "fadd"
          [] op_kind = "Subtract" /\ sv /\ s \in IntKinds -> "sub"
          [] op_kind = "Subtract" /\ sv /\ s \in FloatKinds -> "fsub"
          [] op_kind = "Multiply" /\ sv /\ s \in IntKinds -> "mul"
          [] op_kind = "Multiply" /\ sv /\ s \in FloatKinds -> "fmul"
          [] op_kind = "Divide" /\ sv /\ s \in IntKinds -> "sdiv"
          [] op_kind = "Divide" /\ sv /\ s \in FloatKinds -> "fdiv"
          [] op_kind = "Equal" /\ sv /\ s \in IntKinds \cup {"Bool"} -> "icmp eq"
          [] op_kind = "Equal" /\ sv /\ s \in FloatKinds -> "fcmp oeq"
          [] op_kind = "NotEqual" /\ sc /\ s \in IntKinds \cup {"Bool"} -> "icmp ne"
          [] op_kind = "NotEqual" /\ sc /\ s \in FloatKinds -> "fcmp one"
          [] op_kind = "LessThan" /\ sv /\ s \in IntKinds -> "icmp slt"
          [] op_kind = "LessThan" /\ sv /\ s \in FloatKinds -> "fcmp olt"
          [] op_kind = "LessThanOrEqual" /\ sv /\ s \in IntKinds -> "icmp sle"
          [] op_kind = "LessThanOrEqual" /\ sv /\ s \in FloatKinds -> "fcmp ole"
          [] op_kind = "GreaterThan" /\ sv /\ s \in IntKinds -> "icmp sgt"
          [] op_kind = "GreaterThan" /\ sv /\ s \in FloatKinds -> "fcmp ogt"
          [] op_kind = "GreaterThanOrEqual" /\ sv /\ s \in IntKinds -> "icmp sge"
          [] op_kind = "GreaterThanOrEqual" /\ sv /\ s \in FloatKinds -> "fcmp oge"
          [] op_kind = "LogicalAnd" /\ sc /\ s = "Bool" -> "and"
          [] op_kind = "BitwiseAnd" /\ sv /\ s \in IntKinds \cup {"Bool"} -> "and"
          [] op_kind = "LogicalOr" /\ sc /\ s = "Bool" -> "or"
          [] op_kind = "BitwiseOr" /\ sv /\ s \in IntKinds \cup {"Bool"} -> "or"
          [] op_kind = "Xor" /\ sv /\ s \in IntKinds \cup {"Bool"} -> "xor"
          [] OTHER -> ""

(* vec_size: the lane count, 4 for every type.                             *)
vec_size == 4

(***************************************************************************)
(* The generator (struct LlvmGenerator) after LlvmGenerator::new().        *)
(* A name map is a function from its keys to names; an IdGenerator is its  *)
(* counter.  A code buffer is the sequence of the pieces added to it.      *)
(***************************************************************************)
Piece(kind, name, args) == [kind |-> kind, name |-> name, args |-> args]

NewGenerator ==
    [struct_names |-> <<>>, struct_ids |-> 0,
     vec_names |-> <<>>, vec_ids |-> 0,
     merger_names |-> <<>>, merger_ids |-> 0,
     dict_names |-> <<>>, dict_ids |-> 0,
     bld_names |-> <<>>,
     simd_names |-> <<>>,
     prelude_code |-> <<Piece("prelude", "", <<>>)>>,
     prelude_var_ids |-> 0,
     body_code |-> <<>>,
     visited |-> {}]

Put(map, key, value) == (key :> value) @@ map

(* The result of a fallible generator method: the generator as the call    *)
(* left it, whether it returned Ok, and the value it returned.             *)
Res(g, ok, name) == [g |-> g, ok |-> ok, name |-> name]

ScalarName(s) ==
    CASE s = "Bool" -> "i1"
      [] s = "I8" -> "i8"
      [] s = "I32" -> "i32"
      [] s = "I64" -> "i64"
      [] s = "F32" -> "float"
      [] s = "F64" -> "double"

SimdName(s) == "<" \o ToString(vec_size) \o " x " \o ScalarName(s) \o ">"

NonSimdCount(fields) == Cardinality({i \in DOMAIN fields : fields[i].k # "Simd"})

RECURSIVE llvm_type(_, _)
RECURSIVE llvm_type_fields(_, _, _)

(* The loop `for f in fields { field_types.push(try!(self.llvm_type(f))) }`*)
(* of the Struct arm: names collects the field names, in res.name.         *)
llvm_type_fields(g, fields, names) ==
    IF fields = <<>> THEN Res(g, TRUE, names)
    ELSE LET r == llvm_type(g, Head(fields))
         IN  IF ~r.ok THEN Res(r.g, FALSE, <<>>)
             ELSE llvm_type_fields(r.g, Tail(fields), Append(names, r.name))

(* A Struct arm that allocates a name without consulting struct_names.     *)
llvm_type_struct_nomemo(g, fields) ==
    LET name == IdGeneratorNext("%s", g.struct_ids)
        g1 == [g EXCEPT !.struct_ids = @ + 1]
        fr == llvm_type_fields(g1, fields, <<>>)
    IN  IF ~fr.ok THEN Res(fr.g, FALSE, "")
        ELSE Res([fr.g EXCEPT !.prelude_code = Append(@, Piece("struct", name, fr.name)),
                              !.prelude_var_ids = @ + 7 * NonSimdCount(fields),
                              !.struct_names = Put(@, fields, name)], TRUE, name)

llvm_type_struct(g, fields) ==
    IF fields \in DOMAIN g.struct_names THEN Res(g, TRUE, g.struct_names[fields])
    ELSE LET name == IdGeneratorNext("%s", g.struct_ids)
             g1 == [g EXCEPT !.struct_ids = @ + 1]
             fr == llvm_type_fields(g1, fields, <<>>)
         IN  IF ~fr.ok THEN Res(fr.g, FALSE, "")
             ELSE LET g2 == [fr.g EXCEPT
                               !.prelude_code = Append(@, Piece("struct", name, fr.name)),
                               !.prelude_var_ids = @ + 7 * NonSimdCount(fields),
                               !.struct_names = Put(@, fields, name)]
                  IN  Res(g2, TRUE, name)

llvm_type_vector(g, elem) ==
    IF elem \in DOMAIN g.vec_names THEN Res(g, TRUE, g.vec_names[elem])
    ELSE LET er == llvm_type(g, elem)
         IN  IF ~er.ok THEN Res(er.g, FALSE, "")
             ELSE LET name == IdGeneratorNext("%v", er.g.vec_ids)
                      code == <<Piece("vector", name, <<er.name>>)>> \o
                              (IF elem.k = "Scalar"
                               THEN <<Piece("vvector", name, <<er.name>>)>> ELSE <<>>)
                      g1 == [er.g EXCEPT !.vec_ids = @ + 1,
                                         !.vec_names = Put(@, elem, name),
                                         !.prelude_code = @ \o code]
                  IN  Res(g1, TRUE, name)

llvm_type_dict(g, key, value) ==
    LET elem == Struct(<<key, value>>)
    IN  IF elem \in DOMAIN g.dict_names THEN Res(g, TRUE, g.dict_names[elem])
        ELSE LET kr == llvm_type(g, key)
                 vr == llvm_type(kr.g, value)
             IN  IF ~kr.ok THEN Res(kr.g, FALSE, "")
                 ELSE IF ~vr.ok THEN Res(vr.g, FALSE, "")
                 ELSE LET name == IdGeneratorNext("%d", vr.g.dict_ids)
                          g1 == [vr.g EXCEPT !.dict_ids = @ + 1,
                                             !.dict_names = Put(@, elem, name)]
                          sr == llvm_type(g1, elem)
                          xr == llvm_type(sr.g, Vector(elem))
                      IN  IF ~sr.ok THEN Res(sr.g, FALSE, "")
                          ELSE IF ~xr.ok THEN Res(xr.g, FALSE, "")
                          ELSE Res([xr.g EXCEPT !.prelude_code =
                                      Append(@, Piece("dictionary", name,
                                                      <<kr.name, vr.name, sr.name, xr.name>>))],
                                   TRUE, name)

(* The Builder arm: bld_names is keyed by the BuilderKind, operator and    *)
(* all; the names it stores are built from the underlying container.       *)
SuffixBld(g, bk, r, suffix) ==
    IF ~r.ok THEN Res(r.g, FALSE, "")
    ELSE Res([r.g EXCEPT !.bld_names = Put(@, bk, r.name \o suffix)], TRUE, r.name \o suffix)

llvm_type_merger(g, bk) ==
    LET t == bk.a[1]
    IN  IF t \in DOMAIN g.merger_names
        THEN SuffixBld(g, bk, Res(g, TRUE, g.merger_names[t]), ".bld")
        ELSE LET er == llvm_type(g, t)
             IN  IF ~er.ok THEN Res(er.g, FALSE, "")
                 ELSE LET name == IdGeneratorNext("%m", er.g.merger_ids)
                          g1 == [er.g EXCEPT !.merger_ids = @ + 1,
                                             !.merger_names = Put(@, t, name),
                                             !.prelude_code =
                                                 Append(@, Piece("merger", name, <<er.name>>))]
                      IN  SuffixBld(g1, bk, Res(g1, TRUE, name), ".bld")

llvm_type_dictmerger(g, bk) ==
    LET kt == bk.a[1]
        vt == bk.a[2]
        elem == Struct(<<kt, vt>>)
        dr == llvm_type(g, Dict(kt, vt))
        sr == llvm_type(dr.g, elem)
        kr == llvm_type(sr.g, kt)
        vr == llvm_type(kr.g, vt)
        xr == llvm_type(vr.g, Vector(elem))
        opc == llvm_binop(bk.op, vt)
    IN  IF ~dr.ok THEN Res(dr.g, FALSE, "")
        ELSE IF ~sr.ok THEN Res(sr.g, FALSE, "")
        ELSE IF ~kr.ok THEN Res(kr.g, FALSE, "")
        ELSE IF ~vr.ok THEN Res(vr.g, FALSE, "")
        ELSE IF ~xr.ok THEN Res(xr.g, FALSE, "")
        ELSE IF opc = "" THEN Res(xr.g, FALSE, "")
        ELSE LET g1 == [xr.g EXCEPT !.prelude_code =
                          Append(@, Piece("dictmerger", dr.name,
                                          <<kr.name, vr.name, sr.name, opc, xr.name>>))]
             IN  SuffixBld(g1, bk, Res(g1, TRUE, dr.name), ".bld")

(* A Builder arm that gives VecMerger the suffix of Appender.               *)
llvm_type_builder_samesuffix(g, bk) ==
    IF bk \in DOMAIN g.bld_names THEN Res(g, TRUE, g.bld_names[bk])
    ELSE CASE bk.k = "Appender" ->
                SuffixBld(g, bk, llvm_type(g, Vector(bk.a[1])), ".bld")
           [] bk.k = "Merger" -> llvm_type_merger(g, bk)
           [] bk.k = "DictMerger" -> llvm_type_dictmerger(g, bk)
           [] bk.k = "GroupMerger" ->
                SuffixBld(g, bk, llvm_type(g, Vector(Struct(<<bk.a[1], bk.a[2]>>))), ".bld")
           [] bk.k = "VecMerger" ->
                SuffixBld(g, bk, llvm_type(g, Vector(bk.a[1])), ".bld")

llvm_type_builder(g, bk) ==
    IF bk \in DOMAIN g.bld_names THEN Res(g, TRUE, g.bld_names[bk])
    ELSE CASE bk.k = "Appender" ->
                SuffixBld(g, bk, llvm_type(g, Vector(bk.a[1])), ".bld")
           [] bk.k = "Merger" -> llvm_type_merger(g, bk)
           [] bk.k = "DictMerger" -> llvm_type_dictmerger(g, bk)
           [] bk.k = "GroupMerger" ->
                SuffixBld(g, bk, llvm_type(g, Vector(Struct(<<bk.a[1], bk.a[2]>>))), ".bld")
           [] bk.k = "VecMerger" ->
                SuffixBld(g, bk, llvm_type(g, Vector(bk.a[1])), ".vm.bld")

llvm_type_simd(g, s) ==
    IF s \in DOMAIN g.simd_names THEN Res(g, TRUE, g.simd_names[s])
    ELSE Res([g EXCEPT !.simd_names = Put(@, s, SimdName(s))], TRUE, SimdName(s))

(* LlvmGenerator::llvm_type                                                *)
llvm_type(g, ty) ==
    CASE ty.k = "Scalar" -> Res(g, TRUE, ScalarName(ty.s))
      [] ty.k = "Simd" -> llvm_type_simd(g, ty.s)
      [] ty.k = "Struct" -> llvm_type_struct(g, ty.a)
      [] ty.k = "Vector" -> llvm_type_vector(g, ty.a[1])
      [] ty.k = "Dict" -> llvm_type_dict(g, ty.a[1], ty.a[2])
      [] IsBuilder(ty) -> llvm_type_builder(g, ty)
      [] OTHER -> Res(g, FALSE, "")

(***************************************************************************)
(* SIR programs (sir::SirProgram).                                         *)
(*                                                                         *)
(* A symbol is a name and an id; a parameter or local map is a function    *)
(* from symbols to types.  A HashMap is iterated in an order the program   *)
(* does not control: every .iter() of a call takes its order from ord.     *)
(***************************************************************************)
Symbol(name, id) == [name |-> name, id |-> id]

(* llvm_symbol                                                             *)
llvm_symbol(symbol) ==
    IF symbol.id = 0 THEN "%" \o symbol.name
    ELSE "%" \o symbol.name \o "." \o ToString(symbol.id)

(* The order of symbols (Ord of ast::Symbol): by name, then by id.         *)
NameRank(name) ==
    CASE name = "" -> 0 [] name = "a" -> 1 [] name = "b" -> 2 [] name = "ba" -> 3
      [] name = "e" -> 4 [] name = "end" -> 5 [] name = "i" -> 6
      [] name = "start" -> 7 [] name = "stride" -> 8 [] name = "v" -> 9
      [] name = "w" -> 10 [] name = "x" -> 11 [] name = "y" -> 12

SymLess(x, y) ==
    \/ NameRank(x.name) < NameRank(y.name)
    \/ NameRank(x.name) = NameRank(y.name) /\ x.id < y.id

(* The BTreeMap built from a parameter map: its keys in ascending order.   *)
RECURSIVE params_sorted(_)
params_sorted(syms) ==
    IF syms = {} THEN <<>>
    ELSE LET m == CHOOSE x \in syms : \A y \in syms \ {x} : SymLess(x, y)
         IN  <<m>> \o params_sorted(syms \ {m})

Reverse(q) == [i \in 1..Len(q) |-> q[Len(q) + 1 - i]]

HashOrders == {"asc", "desc"}

(* HashMap::iter: the keys in the order ord stands for.                    *)
HashIter(syms, ord) ==
    IF ord = "asc" THEN params_sorted(syms) ELSE Reverse(params_sorted(syms))

(* get_combined_params                                                     *)
get_combined_params(sir, par_for) ==
    sir.funcs[par_for.cont].params @@ sir.funcs[par_for.body].params

(* get_sym_ty: the type of a symbol, locals first; ok is FALSE when the    *)
(* symbol is in neither map.                                               *)
get_sym_ty(func, sym) ==
    IF sym \in DOMAIN func.locals THEN [ok |-> TRUE, ty |-> func.locals[sym]]
    ELSE IF sym \in DOMAIN func.params THEN [ok |-> TRUE, ty |-> func.params[sym]]
    ELSE [ok |-> FALSE, ty |-> Scalar("Bool")]

(* llvm_unaryop: "" for the unsupported pairs.                             *)
llvm_unaryop(op_kind, s) ==
    CASE op_kind = "Log" /\ s = "F32" -> "@llvm.log.f32"
      [] op_kind = "Log" /\ s = "F64" -> "@llvm.log.f64"
      [] op_kind = "Exp" /\ s = "F32" -> "@llvm.exp.f32"
      [] op_kind = "Exp" /\ s = "F64" -> "@llvm.exp.f64"
      [] op_kind = "Sqrt" /\ s = "F32" -> "@llvm.sqrt.f32"
      [] op_kind = "Sqrt" /\ s = "F64" -> "@llvm.sqrt.f64"
      [] op_kind = "Erf" /\ s = "F32" -> "@erff"
      [] op_kind = "Erf" /\ s = "F64" -> "@erf"
      [] OTHER -> ""

(***************************************************************************)
(* Statements and terminators of SIR, as records of one shape each.        *)
(***************************************************************************)
NoSym == Symbol("", 0)

(* A statement: its kind, its operator, its output and first operand, and  *)
(* what the other kinds carry besides: the second operand, the builder,    *)
(* the type (BinOp ty, Cast new_ty, NewBuilder ty), the arguments and the  *)
(* external name of a CUDF, and whether a NewBuilder has an argument.      *)
Stmt(kind, op, output, child, right, builder, ty, args, symbol_name, has_arg) ==
    [kind |-> kind, op |-> op, output |-> output, child |-> child, right |-> right,
     builder |-> builder, ty |-> ty, args |-> args, symbol_name |-> symbol_name,
     has_arg |-> has_arg]

Statement(kind, op, output, child) ==
    Stmt(kind, op, output, child, NoSym, NoSym, Scalar("Bool"), <<>>, "", FALSE)
UnaryOp(op, output, child) == Statement("UnaryOp", op, output, child)
BinOp(output, op, ty, left, right) ==
    Stmt("BinOp", op, output, left, right, NoSym, ty, <<>>, "", FALSE)
Negate(output, child) == Statement("Negate", "", output, child)
Cast(output, new_ty, child) ==
    Stmt("Cast", "", output, child, NoSym, NoSym, new_ty, <<>>, "", FALSE)
Merge(builder, value) ==
    Stmt("Merge", "", NoSym, value, NoSym, builder, Scalar("Bool"), <<>>, "", FALSE)
Result(output, builder) ==
    Stmt("Res", "", output, NoSym, NoSym, builder, Scalar("Bool"), <<>>, "", FALSE)
NewBuilder(output, arg, ty) ==
    Stmt("NewBuilder", "", output, arg, NoSym, NoSym, ty, <<>>, "", arg # NoSym)
CUDF(output, symbol_name, args) ==
    Stmt("CUDF", "", output, NoSym, NoSym, NoSym, Scalar("Bool"), args, symbol_name, FALSE)

Iter(data, kind, has_start, start, end, stride) ==
    [data |-> data, kind |-> kind, has_start |-> has_start,
     start |-> start, end |-> end, stride |-> stride]

ParallelForData(body, cont, data, builder, builder_arg, idx_arg, data_arg, innermost) ==
    [body |-> body, cont |-> cont, data |-> data, builder |-> builder,
     builder_arg |-> builder_arg, idx_arg |-> idx_arg, data_arg |-> data_arg,
     innermost |-> innermost]

NoParallelFor == ParallelForData(0, 0, <<>>, NoSym, NoSym, NoSym, NoSym, FALSE)

Terminator(t, f, pf, sym) == [t |-> t, f |-> f, pf |-> pf, sym |-> sym]
EndFunction == Terminator("EndFunction", 0, NoParallelFor, NoSym)
Crash == Terminator("Crash", 0, NoParallelFor, NoSym)
JumpFunction(f) == Terminator("JumpFunction", f, NoParallelFor, NoSym)
JumpBlock(b) == Terminator("JumpBlock", b, NoParallelFor, NoSym)
ParallelFor(pf) == Terminator("ParallelFor", 0, pf, NoSym)
ProgramReturn(sym) == Terminator("ProgramReturn", 0, NoParallelFor, sym)
Branch(cond, on_true, on_false) ==
    Terminator("Branch", on_true, [NoParallelFor EXCEPT !.cont = on_false], cond)

(* containing_loop: Option<ParallelForData>                                *)
None == [some |-> FALSE, pf |-> NoParallelFor]
Some(pf) == [some |-> TRUE, pf |-> pf]

(***************************************************************************)
(* Emitted code.  An instruction is a record of its opcode, the value it   *)
(* defines, its main operand (callee, branch target, loaded or stored      *)
(* slot) and its other operands; a function definition is its name, its    *)
(* parameter list and the instructions of its two code sections.           *)
(***************************************************************************)
Instr(op, dst, a, args) == [op |-> op, dst |-> dst, a |-> a, args |-> args]

FnDef(name, params, alloca_code, code) ==
    [name |-> name, params |-> params, alloca_code |-> alloca_code, code |-> code]

(* FunctionContext::new                                                    *)
NewFunctionContext ==
    [alloca_code |-> <<>>, code |-> <<>>, defined_symbols |-> {}, var_ids |-> 0]

(***************************************************************************)
(* A lowering function is the sequence of the steps its body performs on   *)
(* the generator and on the FunctionContext, in the order of its source:   *)
(*   Var(n)            let n = ctx.var_ids.next()                          *)
(*   LlvmType(ty, n)   let n = self.llvm_type(ty)?                         *)
(*   Prefix(n, m, s)   let n = format!("@{}{}", m.replace("%", ""), s)     *)
(*   Code(..)          ctx.code.add(..)                                    *)
(*   Alloca(sym, ty)   ctx.add_alloca(sym, ty)?                            *)
(*   LabelIds(b, ns)   let mut label_ids =                                 *)
(*                         IdGenerator::new(&b.replace("%", ""));          *)
(*                     let n = label_ids.next(), for each n of ns in turn  *)
(*   Err               return weld_err!(..)                                *)
(*   AddFn(f, cl)      self.add_function(sir, &sir.funcs[f], cl)?          *)
(*   NewCtx            FunctionContext::new()                              *)
(*   ToBody(name, ps)  self.body_code.add(..) of the finished function     *)
(*   Prelude(k, n, as) self.prelude_code.add(..) of a declaration or helper *)
(* An operand "$n" of a step stands for the local variable n of the        *)
(* source, bound by an earlier Var, LlvmType or Prefix.                    *)
(***************************************************************************)
NoInstr == Instr("", "", "", <<>>)
Cmd(c, n, ty, instr, f, cl) ==
    [c |-> c, n |-> n, ty |-> ty, instr |-> instr, f |-> f, cl |-> cl]

Var(n) == Cmd("var", n, Scalar("Bool"), NoInstr, 0, None)
LlvmType(ty, n) == Cmd("type", n, ty, NoInstr, 0, None)
Prefix(n, m, suffix) == Cmd("prefix", n, Scalar("Bool"), Instr("", suffix, m, <<>>), 0, None)
Code(op, dst, a, args) == Cmd("code", "", Scalar("Bool"), Instr(op, dst, a, args), 0, None)
Alloca(symbol, ty) == Cmd("alloca", "", Scalar("Bool"), Instr("alloca", symbol, ty, <<>>), 0, None)
LabelIds(base, names) ==
    Cmd("label_ids", base, Scalar("Bool"), Instr("", "", "", names), 0, None)
Err == Cmd("err", "", Scalar("Bool"), NoInstr, 0, None)
AddFn(f, containing_loop) == Cmd("add_function", "", Scalar("Bool"), NoInstr, f, containing_loop)
NewCtx == Cmd("new_ctx", "", Scalar("Bool"), NoInstr, 0, None)
ToBody(name, params) == Cmd("to_body", name, Scalar("Bool"), Instr("", "", "", params), 0, None)
Prelude(kind, name, args) ==
    Cmd("prelude", kind, Scalar("Bool"), Instr("", "", name, args), 0, None)

RECURSIVE Concat(_)
Concat(seqs) == IF seqs = <<>> THEN <<>> ELSE Head(seqs) \o Concat(Tail(seqs))

(* The state a lowering runs on: the generator, the context of the         *)
(* function being emitted, whether no try! has failed so far, and the      *)
(* local variables bound so far.                                           *)
St(g, ctx, ok, env) == [g |-> g, ctx |-> ctx, ok |-> ok, env |-> env]

NoEnv == [n \in {} |-> ""]

Bind(st, n, v) == [st EXCEPT !.env = (n :> v) @@ @]

Resolve(env, x) ==
    IF x # "" /\ SubSeq(x, 1, 1) = "$" THEN env[SubSeq(x, 2, Len(x))] ELSE x

ResolveInstr(env, instr) ==
    [op |-> instr.op,
     dst |-> Resolve(env, instr.dst),
     a |-> IF instr.op = "label" THEN StripPercent(Resolve(env, instr.a))
           ELSE Resolve(env, instr.a),
     args |-> [i \in 1..Len(instr.args) |-> Resolve(env, instr.args[i])]]

(* self.llvm_type(ty)?                                                     *)
TypeStep(st, n, r) == Bind([st EXCEPT !.g = r.g, !.ok = r.ok], n, r.name)

(* add_alloca without the check of defined_symbols.                        *)
add_alloca_unchecked(st, instr) ==
    [st EXCEPT !.ctx.defined_symbols = @ \cup {instr.dst},
               !.ctx.alloca_code = Append(@, instr)]

(* FunctionContext::add_alloca                                             *)
add_alloca(st, instr) ==
    IF instr.dst \in st.ctx.defined_symbols THEN [st EXCEPT !.ok = FALSE]
    ELSE [st EXCEPT !.ctx.defined_symbols = @ \cup {instr.dst},
                    !.ctx.alloca_code = Append(@, instr)]

(* self.add_function(..)?: the generator is replaced by the one the nested *)
(* call leaves, the context of the caller is untouched.                    *)
AddFunctionStep(st, r) == [st EXCEPT !.g = r.g, !.ok = r.ok]

(* self.body_code.add of a finished function.                              *)
AddToBody(st, name, params) ==
    [st EXCEPT !.g.body_code =
         Append(@, FnDef(name, params, st.ctx.alloca_code, st.ctx.code))]

RECURSIVE add_function(_, _, _, _, _)
RECURSIVE Run(_, _, _, _)

Step(st, cmd, sir, ord) ==
    CASE cmd.c = "var" ->
            Bind([st EXCEPT !.ctx.var_ids = @ + 1], cmd.n,
                 IdGeneratorNext("%t.t", st.ctx.var_ids))
      [] cmd.c = "type" -> TypeStep(st, cmd.n, llvm_type(st.g, cmd.ty))
      [] cmd.c = "prefix" ->
            Bind(st, cmd.n, "@" \o StripPercent(Resolve(st.env, cmd.instr.a)) \o cmd.instr.dst)
      [] cmd.c = "code" ->
            [st EXCEPT !.ctx.code = Append(@, ResolveInstr(st.env, cmd.instr))]
      [] cmd.c = "alloca" -> add_alloca(st, ResolveInstr(st.env, cmd.instr))
      [] cmd.c = "label_ids" ->
            [st EXCEPT !.env =
                 [n \in {cmd.instr.args[j] : j \in DOMAIN cmd.instr.args} |->
                     IdGeneratorNext(StripPercent(st.env[cmd.n]),
                                     (CHOOSE j \in DOMAIN cmd.instr.args :
                                          cmd.instr.args[j] = n) - 1)] @@ @]
      [] cmd.c = "err" -> [st EXCEPT !.ok = FALSE]
      [] cmd.c = "add_function" ->
            AddFunctionStep(st, add_function(st.g, sir, cmd.f, cmd.cl, ord))
      [] cmd.c = "new_ctx" -> [st EXCEPT !.ctx = NewFunctionContext]
      [] cmd.c = "to_body" -> AddToBody(st, cmd.n, cmd.instr.args)
      [] cmd.c = "prelude" ->
            [st EXCEPT !.g.prelude_code =
                 Append(@, Piece(cmd.n, cmd.instr.a, ResolveInstr(st.env, cmd.instr).args))]

(* The steps in order; the first failing try! ends the lowering, and what  *)
(* the steps before it did to the generator stays.                         *)
Run(st, steps, sir, ord) ==
    IF ~st.ok \/ steps = <<>> THEN st
    ELSE IF Len(steps) = 1 THEN Step(st, steps[1], sir, ord)
    ELSE Run(Run(st, SubSeq(steps, 1, Len(steps) \div 2), sir, ord),
             SubSeq(steps, Len(steps) \div 2 + 1, Len(steps)), sir, ord)

(* load_var: one temporary n, one load.                                    *)
load_var(sym, ty, n) == <<Var(n), Code("load", "$" \o n, sym, <<ty>>)>>

(* get_arg_str: the types are lowered in ascending order of the symbols;   *)
(* val is the operand list.                                                *)
get_arg_str(params, suffix) ==
    LET syms == params_sorted(DOMAIN params)
    IN  [code |-> [i \in 1..Len(syms) |-> LlvmType(params[syms[i]], "arg_ll_ty")],
         val |-> [i \in 1..Len(syms) |-> llvm_symbol(syms[i]) \o suffix] \o <<"%cur.work">>]

StructOf(params, syms) == Struct([i \in 1..Len(syms) |-> params[syms[i]]])

(* unload_arg_struct.  The four instructions that reach the stashed struct *)
(* through field 0 of the work descriptor are one load.args.               *)
unload_arg_struct(params) ==
    LET syms == params_sorted(DOMAIN params)
    IN  <<LlvmType(StructOf(params, syms), "ll_ty"),
          Var("storage_typed"), Var("storage"), Var("work_data_ptr"), Var("work_data"),
          Code("load.args", "$storage", "%cur.work", <<"0", "$ll_ty">>)>>
        \o [i \in 1..Len(syms) |->
               Code("extractvalue", llvm_symbol(syms[i]), "$storage",
                    <<ToString(i - 1), "$ll_ty">>)]

(* create_new_pieces: the branch on the full-task bit of the work          *)
(* descriptor, then one newPiece per Appender parameter.                   *)
create_new_pieces_unconditional(params) ==
    LET syms == params_sorted(DOMAIN params)
    IN  <<Var("full_task_ptr"), Var("full_task_int"), Var("full_task_bit"),
          Code("load.field", "$full_task_int", "%cur.work", <<"4">>),
          Code("trunc", "$full_task_bit", "$full_task_int", <<>>),
          Code("br", "", "%new_pieces", <<>>),
          Code("label", "", "new_pieces", <<>>)>>
        \o Concat([i \in 1..Len(syms) |->
               IF params[syms[i]].k = "Appender"
               THEN <<LlvmType(params[syms[i]], "bld_ty_str"),
                      Prefix("bld_new_piece", "$bld_ty_str", ".newPiece"),
                      Code("call", "", "$bld_new_piece", <<llvm_symbol(syms[i]), "%cur.work">>)>>
               ELSE <<>>])
        \o <<Code("br", "", "%fn_call", <<>>)>>

create_new_pieces(params) ==
    LET syms == params_sorted(DOMAIN params)
    IN  <<Var("full_task_ptr"), Var("full_task_int"), Var("full_task_bit"),
          Code("load.field", "$full_task_int", "%cur.work", <<"4">>),
          Code("trunc", "$full_task_bit", "$full_task_int", <<>>),
          Code("br.cond", "", "$full_task_bit", <<"%new_pieces", "%fn_call">>),
          Code("label", "", "new_pieces", <<>>)>>
        \o Concat([i \in 1..Len(syms) |->
               IF params[syms[i]].k = "Appender"
               THEN <<LlvmType(params[syms[i]], "bld_ty_str"),
                      Prefix("bld_new_piece", "$bld_ty_str", ".newPiece"),
                      Code("call", "", "$bld_new_piece", <<llvm_symbol(syms[i]), "%cur.work">>)>>
               ELSE <<>>])
        \o <<Code("br", "", "%fn_call", <<>>)>>

(* get_arg_struct: the struct is built field by field in ascending order   *)
(* of the symbols and stored in malloc'ed storage, bound to out.           *)
RefName(i) == IF i = 0 THEN "undef" ELSE "$next_ref" \o ToString(i)

get_arg_struct_unsorted(params, out) ==
    LET syms == Reverse(params_sorted(DOMAIN params))
    IN  <<LlvmType(StructOf(params, syms), "ll_ty")>>
        \o Concat([i \in 1..Len(syms) |->
               <<Var("next_ref" \o ToString(i)),
                 LlvmType(params[syms[i]], "field_ll_ty"),
                 Code("insertvalue", RefName(i), RefName(i - 1),
                      <<llvm_symbol(syms[i]), ToString(i - 1), "$ll_ty">>)>>])
        \o <<Var("struct_size_ptr"), Var("struct_size"), Var(out), Var("struct_storage_typed"),
             Code("call", "$" \o out, "@malloc", <<"$ll_ty">>),
             Code("store.args", "", "$" \o out, <<RefName(Len(syms)), "$ll_ty">>)>>

get_arg_struct(params, out) ==
    LET syms == params_sorted(DOMAIN params)
    IN  <<LlvmType(StructOf(params, syms), "ll_ty")>>
        \o Concat([i \in 1..Len(syms) |->
               <<Var("next_ref" \o ToString(i)),
                 LlvmType(params[syms[i]], "field_ll_ty"),
                 Code("insertvalue", RefName(i), RefName(i - 1),
                      <<llvm_symbol(syms[i]), ToString(i - 1), "$ll_ty">>)>>])
        \o <<Var("struct_size_ptr"), Var("struct_size"), Var(out), Var("struct_storage_typed"),
             Code("call", "$" \o out, "@malloc", <<"$ll_ty">>),
             Code("store.args", "", "$" \o out, <<RefName(Len(syms)), "$ll_ty">>)>>

(* gen_unary_op                                                            *)
gen_unary_op(func, output, child, op_kind) ==
    LET child_ty == get_sym_ty(func, child)
        out_ty == get_sym_ty(func, output)
    IN  IF ~child_ty.ok THEN <<Err>>
        ELSE IF child_ty.ty.k # "Scalar" THEN <<Err>>
        ELSE <<LlvmType(child_ty.ty, "child_ll_ty")>>
             \o load_var(llvm_symbol(child), "$child_ll_ty", "child_tmp")
             \o <<Var("res_tmp")>>
             \o (IF llvm_unaryop(op_kind, child_ty.ty.s) = "" THEN <<Err>>
                 ELSE <<Code("call", "$res_tmp", llvm_unaryop(op_kind, child_ty.ty.s),
                             <<"$child_tmp">>)>>
                      \o (IF ~out_ty.ok THEN <<Err>>
                          ELSE <<LlvmType(out_ty.ty, "out_ty_str"),
                                 Code("store", "", llvm_symbol(output), <<"$res_tmp">>)>>))

(* binop_identity: the identity of a merge operator on a type, "" for the  *)
(* pairs without one (the weld_err! arm).                                  *)
binop_identity(op_kind, ty) ==
    CASE op_kind = "Add" /\ ty.k = "Scalar" /\ ty.s \in IntKinds -> "0"
      [] op_kind = "Add" /\ ty.k = "Scalar" /\ ty.s \in FloatKinds -> "0.0"
      [] op_kind = "Multiply" /\ ty.k = "Scalar" /\ ty.s \in IntKinds -> "1"
      [] op_kind = "Multiply" /\ ty.k = "Scalar" /\ ty.s \in FloatKinds -> "1.0"
      [] OTHER -> ""

(* llvm_binop_vector with the values of < and > exchanged.                 *)
llvm_binop_vector_exchanged(op_kind) ==
    CASE op_kind = "Equal" -> <<"eq", "0">>
      [] op_kind = "NotEqual" -> <<"ne", "0">>
      [] op_kind = "LessThan" -> <<"eq", "1">>
      [] op_kind = "LessThanOrEqual" -> <<"ne", "1">>
      [] op_kind = "GreaterThan" -> <<"eq", "-1">>
      [] op_kind = "GreaterThanOrEqual" -> <<"ne", "-1">>
      [] OTHER -> <<>>

(* llvm_binop_vector: the icmp predicate and the value the result of .cmp  *)
(* is compared with; <<>> for the weld_err! arm.                           *)
llvm_binop_vector(op_kind) ==
    CASE op_kind = "Equal" -> <<"eq", "0">>
      [] op_kind = "NotEqual" -> <<"ne", "0">>
      [] op_kind = "LessThan" -> <<"eq", "-1">>
      [] op_kind = "LessThanOrEqual" -> <<"ne", "1">>
      [] op_kind = "GreaterThan" -> <<"eq", "1">>
      [] op_kind = "GreaterThanOrEqual" -> <<"ne", "-1">>
      [] OTHER -> <<>>

(* llvm_castop: the first arm that matches, in the order of the source;    *)
(* no arm returns an error.                                                *)
llvm_castop(ty1, ty2) ==
    LET f(ty, s) == ty.k = "Scalar" /\ ty.s = s
    IN  CASE f(ty1, "F64") /\ f(ty2, "Bool") -> "fptoui"
          [] f(ty1, "F32") /\ f(ty2, "Bool") -> "fptoui"
          [] f(ty1, "Bool") /\ f(ty2, "F64") -> "uitofp"
          [] f(ty1, "Bool") /\ f(ty2, "F32") -> "uitofp"
          [] f(ty1, "F64") /\ f(ty2, "F32") -> "fptrunc"
          [] f(ty1, "F32") /\ f(ty2, "F64") -> "fpext"
          [] f(ty1, "F64") -> "fptosi"
          [] f(ty1, "F32") -> "fptosi"
          [] f(ty2, "F64") -> "sitofp"
          [] f(ty2, "F32") -> "sitofp"
          [] f(ty1, "Bool") -> "zext"
          [] f(ty2, "I64") -> "sext"
          [] OTHER -> "trunc"

(* get_sym_ty(func, sym)? followed by self.llvm_type(ty)?, bound to n.     *)
SymType(func, sym, n) ==
    IF get_sym_ty(func, sym).ok THEN <<LlvmType(get_sym_ty(func, sym).ty, n)>> ELSE <<Err>>

(* The store of a temporary into the slot of the output symbol, after the  *)
(* type of the output has been looked up.                                  *)
StoreOutput(func, output, tmp) ==
    SymType(func, output, "out_ty_str") \o <<Code("store", "", llvm_symbol(output), <<tmp>>)>>

(* gen_merge_op: load the value behind builder_ptr, combine it with        *)
(* merge_value and store it back.  A scalar is combined by one             *)
(* instruction, builder value first; a struct field by field, merged       *)
(* element first; any other type is unreachable!().                        *)
gen_merge_op(builder_ptr, merge_value, merge_ty_str, bin_op, merge_ty) ==
    <<Var("builder_value"), Var("res"),
      Code("load", "$builder_value", builder_ptr, <<merge_ty_str>>)>>
    \o (CASE merge_ty.k = "Scalar" ->
                IF llvm_binop(bin_op, merge_ty) = "" THEN <<Err>>
                ELSE <<Code(llvm_binop(bin_op, merge_ty), "$res", "$builder_value",
                            <<merge_value>>),
                       Code("store", "", builder_ptr, <<"$res">>)>>
          [] merge_ty.k = "Struct" ->
                Concat([i \in 1..Len(merge_ty.a) |->
                    <<Var("merge_elem"), Var("builder_elem"),
                      Var("struct_name" \o ToString(i)), Var("binop_value"),
                      LlvmType(merge_ty.a[i], "elem_ty_str"),
                      Code("extractvalue", "$merge_elem", merge_value, <<ToString(i - 1)>>),
                      Code("extractvalue", "$builder_elem", "$builder_value",
                           <<ToString(i - 1)>>)>>
                    \o (IF llvm_binop(bin_op, merge_ty.a[i]) = "" THEN <<Err>>
                        ELSE <<Code(llvm_binop(bin_op, merge_ty.a[i]), "$binop_value",
                                    "$merge_elem", <<"$builder_elem">>),
                               Code("insertvalue", "$struct_name" \o ToString(i),
                                    IF i = 1 THEN "undef"
                                    ELSE "$struct_name" \o ToString(i - 1),
                                    <<"$binop_value", ToString(i - 1)>>)>>)])
                \o <<Code("store", "", builder_ptr,
                          <<IF merge_ty.a = <<>> THEN "$res"
                            ELSE "$struct_name" \o ToString(Len(merge_ty.a))>>)>>
          [] OTHER -> <<Err>>)

(* gen_merge with the cell of worker 0 in place of the cell of the thread. *)
gen_merge_first_cell(bk, builder, value, func) ==
    LET value_ty == get_sym_ty(func, value)
        merge_ty == Struct(<<Scalar("I64"), bk.a[1]>>)
    IN  SymType(func, builder, "bld_ty_str")
        \o <<Prefix("bld_prefix", "$bld_ty_str", "")>>
        \o (CASE bk.k = "Appender" ->
                    load_var(llvm_symbol(builder), "$bld_ty_str", "bld_tmp")
                    \o <<LlvmType(bk.a[1], "elem_ty_str")>>
                    \o load_var(llvm_symbol(value), "$elem_ty_str", "elem_tmp")
                    \o <<Prefix("merge", "$bld_ty_str", ".merge"),
                         Code("call", "", "$merge", <<"$bld_tmp", "$elem_tmp", "%cur.tid">>)>>
              [] bk.k \in {"DictMerger", "GroupMerger"} ->
                    load_var(llvm_symbol(builder), "$bld_ty_str", "bld_tmp")
                    \o <<LlvmType(Struct(<<bk.a[1], bk.a[2]>>), "elem_ty_str")>>
                    \o load_var(llvm_symbol(value), "$elem_ty_str", "elem_tmp")
                    \o <<Prefix("merge", "$bld_ty_str", ".merge"),
                         Code("call", "", "$merge", <<"$bld_tmp", "$elem_tmp", "%cur.tid">>)>>
              [] bk.k = "Merger" ->
                    load_var(llvm_symbol(builder), "$bld_ty_str", "bld_tmp")
                    \o (IF ~value_ty.ok THEN <<Err>>
                        ELSE <<LlvmType(value_ty.ty, "elem_ty_str")>>
                             \o load_var(llvm_symbol(value), "$elem_ty_str", "elem_tmp")
                             \o <<Var("bld_ptr_raw"), Var("bld_ptr"),
                                  Prefix("getPtrIndexed", "$bld_ty_str", ".getPtrIndexed"),
                                  Prefix("mergePtr", "$bld_ty_str",
                                         IF value_ty.ty.k = "Simd" THEN ".vectorMergePtr"
                                         ELSE ".scalarMergePtr"),
                                  Code("call", "$bld_ptr_raw", "$getPtrIndexed",
                                       <<"$bld_tmp", "0">>),
                                  Code("call", "$bld_ptr", "$mergePtr", <<"$bld_ptr_raw">>)>>
                             \o gen_merge_op("$bld_ptr", "$elem_tmp", "$elem_ty_str",
                                             bk.op, bk.a[1]))
              [] bk.k = "VecMerger" ->
                    <<LlvmType(bk.a[1], "elem_ty_str"), LlvmType(merge_ty, "merge_ty_str")>>
                    \o load_var(llvm_symbol(builder), "$bld_ty_str", "bld_tmp")
                    \o load_var(llvm_symbol(value), "$merge_ty_str", "elem_tmp")
                    \o <<Var("index_var"), Var("elem_var"),
                         Code("extractvalue", "$index_var", "$elem_tmp", <<"0">>),
                         Code("extractvalue", "$elem_var", "$elem_tmp", <<"1">>),
                         Var("bld_ptr_raw"), Var("bld_ptr"),
                         Prefix("merge_ptr", "$bld_ty_str", ".merge_ptr"),
                         Code("call", "$bld_ptr_raw", "$merge_ptr",
                              <<"$bld_tmp", "$index_var", "0">>),
                         Code("bitcast", "$bld_ptr", "$bld_ptr_raw", <<>>)>>
                    \o gen_merge_op("$bld_ptr", "$elem_var", "$elem_ty_str", bk.op, bk.a[1]))

(* gen_merge                                                               *)
gen_merge(bk, builder, value, func) ==
    LET value_ty == get_sym_ty(func, value)
        merge_ty == Struct(<<Scalar("I64"), bk.a[1]>>)
    IN  SymType(func, builder, "bld_ty_str")
        \o <<Prefix("bld_prefix", "$bld_ty_str", "")>>
        \o (CASE bk.k = "Appender" ->
                    load_var(llvm_symbol(builder), "$bld_ty_str", "bld_tmp")
                    \o <<LlvmType(bk.a[1], "elem_ty_str")>>
                    \o load_var(llvm_symbol(value), "$elem_ty_str", "elem_tmp")
                    \o <<Prefix("merge", "$bld_ty_str", ".merge"),
                         Code("call", "", "$merge", <<"$bld_tmp", "$elem_tmp", "%cur.tid">>)>>
              [] bk.k \in {"DictMerger", "GroupMerger"} ->
                    load_var(llvm_symbol(builder), "$bld_ty_str", "bld_tmp")
                    \o <<LlvmType(Struct(<<bk.a[1], bk.a[2]>>), "elem_ty_str")>>
                    \o load_var(llvm_symbol(value), "$elem_ty_str", "elem_tmp")
                    \o <<Prefix("merge", "$bld_ty_str", ".merge"),
                         Code("call", "", "$merge", <<"$bld_tmp", "$elem_tmp", "%cur.tid">>)>>
              [] bk.k = "Merger" ->
                    load_var(llvm_symbol(builder), "$bld_ty_str", "bld_tmp")
                    \o (IF ~value_ty.ok THEN <<Err>>
                        ELSE <<LlvmType(value_ty.ty, "elem_ty_str")>>
                             \o load_var(llvm_symbol(value), "$elem_ty_str", "elem_tmp")
                             \o <<Var("bld_ptr_raw"), Var("bld_ptr"),
                                  Prefix("getPtrIndexed", "$bld_ty_str", ".getPtrIndexed"),
                                  Prefix("mergePtr", "$bld_ty_str",
                                         IF value_ty.ty.k = "Simd" THEN ".vectorMergePtr"
                                         ELSE ".scalarMergePtr"),
                                  Code("call", "$bld_ptr_raw", "$getPtrIndexed",
                                       <<"$bld_tmp", "%cur.tid">>),
                                  Code("call", "$bld_ptr", "$mergePtr", <<"$bld_ptr_raw">>)>>
                             \o gen_merge_op("$bld_ptr", "$elem_tmp", "$elem_ty_str",
                                             bk.op, bk.a[1]))
              [] bk.k = "VecMerger" ->
                    <<LlvmType(bk.a[1], "elem_ty_str"), LlvmType(merge_ty, "merge_ty_str")>>
                    \o load_var(llvm_symbol(builder), "$bld_ty_str", "bld_tmp")
                    \o load_var(llvm_symbol(value), "$merge_ty_str", "elem_tmp")
                    \o <<Var("index_var"), Var("elem_var"),
                         Code("extractvalue", "$index_var", "$elem_tmp", <<"0">>),
                         Code("extractvalue", "$elem_var", "$elem_tmp", <<"1">>),
                         Var("bld_ptr_raw"), Var("bld_ptr"),
                         Prefix("merge_ptr", "$bld_ty_str", ".merge_ptr"),
                         Code("call", "$bld_ptr_raw", "$merge_ptr",
                              <<"$bld_tmp", "$index_var", "%cur.tid">>),
                         Code("bitcast", "$bld_ptr", "$bld_ptr_raw", <<>>)>>
                    \o gen_merge_op("$bld_ptr", "$elem_var", "$elem_ty_str", bk.op, bk.a[1]))

(* gen_new_builder.  The code of resources/merger/init_merger.ll is one    *)
(* instruction here, with the operands the template is formatted with.     *)
gen_new_builder(bk, arg, has_arg, output, func) ==
    SymType(func, output, "bld_ty_str")
    \o <<Prefix("new", "$bld_ty_str", ".new")>>
    \o (CASE bk.k \in {"Appender", "GroupMerger"} ->
                <<Var("bld_tmp"),
                  Code("call", "$bld_tmp", "$new", <<"16", "%cur.work">>),
                  Code("store", "", llvm_symbol(output), <<"$bld_tmp">>)>>
          [] bk.k = "Merger" ->
                <<LlvmType(bk.a[1], "elem_type"), Var("bld_tmp"),
                  Code("call", "$bld_tmp", "$new", <<>>)>>
                \o (IF binop_identity(bk.op, bk.a[1]) = "" THEN <<Err>>
                    ELSE (IF has_arg THEN load_var(llvm_symbol(arg), "$elem_type", "arg_str")
                          ELSE <<>>)
                         \o <<Var("first"), Var("first_raw"), Var("nworkers"), Var("i"),
                              Var("cur_ptr"), Var("cur_bld_ptr"), Var("i2"), Var("cond"),
                              Var("cond2"), Var("label_base"),
                              LabelIds("label_base", <<"entry", "body", "done">>),
                              Code("init_merger.ll", "", "$bld_tmp",
                                   <<IF has_arg THEN "$arg_str"
                                     ELSE binop_identity(bk.op, bk.a[1]),
                                     binop_identity(bk.op, bk.a[1]),
                                     "$entry", "$body", "$done">>),
                              Code("store", "", llvm_symbol(output), <<"$bld_tmp">>)>>)
          [] bk.k = "DictMerger" ->
                <<Var("bld_tmp"),
                  Code("call", "$bld_tmp", "$new", <<"16">>),
                  Code("store", "", llvm_symbol(output), <<"$bld_tmp">>)>>
          [] bk.k = "VecMerger" ->
                IF bk.op # "Add" THEN <<Err>>
                ELSE IF ~has_arg THEN <<Err>>
                ELSE <<LlvmType(Vector(bk.a[1]), "arg_ty")>>
                     \o load_var(llvm_symbol(arg), "$arg_ty", "arg_str")
                     \o <<Var("bld_tmp"),
                          Code("call", "$bld_tmp", "$new", <<"$arg_str">>),
                          Code("store", "", llvm_symbol(output), <<"$bld_tmp">>)>>)

(* The name of the group-by helper: the first id of an IdGenerator that    *)
(* the GroupMerger arm of gen_result creates for itself.                   *)
group_function_id == IdGeneratorNext("%func", 0)

(* gen_result.  The code of the templates under resources/ is one          *)
(* instruction per template here, with the operands that name the builder  *)
(* and the places the calls of gen_merge_op between them combine.          *)
gen_result(bk, builder, output, func) ==
    LET bld_ty == get_sym_ty(func, builder)
        res_ty == get_sym_ty(func, output)
        kt == bk.a[1]
        vt == bk.a[2]
        output_str == "%" \o output.name
    IN  IF ~bld_ty.ok \/ ~res_ty.ok THEN <<Err>>
        ELSE CASE bk.k \in {"Appender", "DictMerger"} ->
                    <<LlvmType(bld_ty.ty, "bld_ty_str"),
                      Prefix("result", "$bld_ty_str", ".result"),
                      LlvmType(res_ty.ty, "res_ty_str")>>
                    \o load_var(llvm_symbol(builder), "$bld_ty_str", "bld_tmp")
                    \o <<Var("res_tmp"),
                         Code("call", "$res_tmp", "$result", <<"$bld_tmp">>),
                         Code("store", "", llvm_symbol(output), <<"$res_tmp">>)>>
               [] bk.k = "Merger" ->
                    <<LlvmType(kt, "elem_ty_str")>>
                    \o (IF kt.k # "Scalar" THEN <<Err>>
                        ELSE <<LlvmType(Simd(kt.s), "elem_vec_ty_str"),
                               LlvmType(bld_ty.ty, "bld_ty_str"),
                               LlvmType(res_ty.ty, "res_ty_str")>>
                             \o load_var(llvm_symbol(builder), "$bld_ty_str", "bld_tmp")
                             \o [n \in 1..7 |-> Var(<<"t0", "scalar_ptr", "vector_ptr",
                                                      "first_scalar", "first_vector",
                                                      "nworkers", "cond">>[n])]
                             \o [n \in 1..10 |-> Var(<<"i", "bld_ptr", "val_scalar_ptr",
                                                       "val_vector_ptr", "val_scalar",
                                                       "val_vector", "i2", "cond2", "as_ptr",
                                                       "label_base">>[n])]
                             \o [n \in 1..7 |-> Var(<<"i_v", "val_v", "i2_v", "cond_v",
                                                      "cond2_v", "final_val_vec",
                                                      "scalar_val_2">>[n])]
                             \o <<LabelIds("label_base",
                                            <<"entry_label", "body_label", "done_label",
                                              "entry_label_v", "body_label_v",
                                              "done_label_v">>),
                                  Code("merger_result_start.ll", "", "$bld_tmp",
                                       <<"$scalar_ptr", "$vector_ptr", "$val_scalar",
                                         "$val_vector", "$entry_label", "$body_label",
                                         "$done_label">>)>>
                             \o gen_merge_op("$scalar_ptr", "$val_scalar", "$elem_ty_str",
                                             bk.op, kt)
                             \o gen_merge_op("$vector_ptr", "$val_vector", "$elem_vec_ty_str",
                                             bk.op, kt)
                             \o <<Code("merger_result_end_vectorized_1.ll", "", "$bld_tmp",
                                       <<"$scalar_ptr", "$vector_ptr", "$val_v", output_str,
                                         ToString(vec_size), "$body_label", "$done_label",
                                         "$entry_label_v", "$body_label_v",
                                         "$done_label_v">>)>>
                             \o gen_merge_op(output_str, "$val_v", "$res_ty_str", bk.op, kt)
                             \o <<Code("merger_result_end_vectorized_2.ll", "", "$bld_tmp",
                                       <<ToString(vec_size), "$body_label_v",
                                         "$done_label_v">>)>>)
               [] bk.k = "GroupMerger" ->
                    <<LlvmType(Dict(kt, Vector(vt)), "bld_ty_str"),
                      LlvmType(Struct(<<kt, vt>>), "kv_struct_ty"),
                      LlvmType(kt, "key_ty"),
                      LlvmType(vt, "value_ty"),
                      LlvmType(Vector(vt), "value_vec_ty"),
                      LlvmType(Vector(Struct(<<kt, vt>>)), "kv_vec_ty"),
                      Prelude("groupmerger", StripPercent(group_function_id),
                              <<"$key_ty", "$value_ty", "$value_vec_ty", "$kv_struct_ty",
                                "$kv_vec_ty", "$bld_ty_str">>),
                      LlvmType(res_ty.ty, "res_ty_str")>>
                    \o load_var(llvm_symbol(builder), "$kv_vec_ty", "bld_tmp")
                    \o <<Var("res_tmp"),
                         Code("call", "$res_tmp", "@" \o StripPercent(group_function_id),
                              <<"$bld_tmp">>),
                         Code("store", "", llvm_symbol(output), <<"$res_tmp">>)>>
               [] bk.k = "VecMerger" ->
                    <<LlvmType(bld_ty.ty, "bld_ty_str"),
                      LlvmType(res_ty.ty, "res_ty_str"),
                      LlvmType(kt, "elem_ty_str")>>
                    \o load_var(llvm_symbol(builder), "$bld_ty_str", "bld_ptr")
                    \o [n \in 1..10 |-> Var(<<"nworkers", "t0", "typed_ptr", "first_vec",
                                              "size", "ret_value", "cond", "i", "vec_ptr",
                                              "cur_vec">>[n])]
                    \o [n \in 1..11 |-> Var(<<"copy_cond", "j", "elem_ptr", "merge_value",
                                              "merge_ptr", "j2", "copy_cond2", "i2", "cond2",
                                              "label_base", "raw_ptr">>[n])]
                    \o <<LabelIds("label_base",
                                   <<"entry", "body_label", "copy_entry_label",
                                     "copy_body_label", "copy_done_label", "done_label">>),
                         Code("vecmerger_result_start.ll", "", "$bld_ptr",
                              <<"$merge_ptr", "$merge_value", "$entry", "$body_label",
                                "$copy_entry_label", "$copy_body_label",
                                "$copy_done_label", "$done_label">>)>>
                    \o gen_merge_op("$merge_ptr", "$merge_value", "$elem_ty_str", bk.op, kt)
                    \o <<Code("vecmerger_result_end.ll", "", "$bld_ptr",
                              <<llvm_symbol(output), "$copy_body_label", "$copy_done_label",
                                "$done_label", "$body_label">>)>>

(* The BinOp arm of gen_statement.                                         *)
gen_binop(func, statement) ==
    <<LlvmType(statement.ty, "ll_ty")>>
    \o load_var(llvm_symbol(statement.child), "$ll_ty", "left_tmp")
    \o load_var(llvm_symbol(statement.right), "$ll_ty", "right_tmp")
    \o <<Var("bin_tmp")>>
    \o SymType(func, statement.output, "out_ty_str")
    \o (CASE statement.ty.k \in {"Scalar", "Simd"} ->
                IF llvm_binop(statement.op, statement.ty) = "" THEN <<Err>>
                ELSE <<Code(llvm_binop(statement.op, statement.ty), "$bin_tmp", "$left_tmp",
                            <<"$right_tmp">>),
                       Code("store", "", llvm_symbol(statement.output), <<"$bin_tmp">>)>>
          [] statement.ty.k = "Vector" ->
                IF llvm_binop_vector(statement.op) = <<>> THEN <<Err>>
                ELSE <<Var("tmp"), Prefix("cmp", "$ll_ty", ".cmp"),
                       Code("call", "$tmp", "$cmp", <<"$left_tmp", "$right_tmp">>),
                       Code("icmp " \o llvm_binop_vector(statement.op)[1], "$bin_tmp", "$tmp",
                            <<llvm_binop_vector(statement.op)[2]>>),
                       Code("store", "", llvm_symbol(statement.output), <<"$bin_tmp">>)>>
          [] OTHER -> <<Err>>)

(* The Cast arm of gen_statement.                                          *)
gen_cast(func, statement) ==
    LET old_ty == get_sym_ty(func, statement.child)
    IN  IF ~old_ty.ok THEN <<Err>>
        ELSE <<LlvmType(old_ty.ty, "old_ll_ty")>>
             \o (IF old_ty.ty # statement.ty
                 THEN <<LlvmType(statement.ty, "new_ll_ty")>>
                      \o load_var(llvm_symbol(statement.child), "$old_ll_ty", "child_tmp")
                      \o <<Var("cast_tmp"),
                           Code(llvm_castop(old_ty.ty, statement.ty), "$cast_tmp",
                                "$child_tmp", <<"$new_ll_ty">>)>>
                      \o StoreOutput(func, statement.output, "$cast_tmp")
                 ELSE load_var(llvm_symbol(statement.child), "$old_ll_ty", "child_tmp")
                      \o <<Code("store", "", llvm_symbol(statement.output),
                                <<"$child_tmp">>)>>)

(* The CUDF arm of gen_statement: the declaration is added under           *)
(* `if true`, at every statement.                                          *)
gen_cudf(func, statement) ==
    LET args == statement.args
        types == Concat([i \in 1..Len(args) |->
                            SymType(func, args[i], "arg_ty" \o ToString(i))])
                 \o SymType(func, statement.output, "out_ty")
    IN  types
        \o <<Prelude("declare", statement.symbol_name,
                     [i \in 1..Len(args) |-> "$arg_ty" \o ToString(i)] \o <<"$out_ty">>)>>
        \o types
        \o <<Code("call", "", "@" \o statement.symbol_name,
                  [i \in 1..Len(args) |-> llvm_symbol(args[i])]
                  \o <<llvm_symbol(statement.output)>>)>>

(* The Merge, Res and NewBuilder arms: the builder's type must be a        *)
(* builder.                                                                *)
gen_builder_statement(func, statement) ==
    LET bld_ty == IF statement.kind = "NewBuilder" THEN [ok |-> TRUE, ty |-> statement.ty]
                  ELSE get_sym_ty(func, statement.builder)
    IN  IF ~bld_ty.ok THEN <<Err>>
        ELSE IF ~IsBuilder(bld_ty.ty) THEN <<Err>>
        ELSE CASE statement.kind = "Merge" ->
                    gen_merge(bld_ty.ty, statement.builder, statement.child, func)
               [] statement.kind = "Res" ->
                    gen_result(bld_ty.ty, statement.builder, statement.output, func)
               [] statement.kind = "NewBuilder" ->
                    gen_new_builder(bld_ty.ty, statement.child, statement.has_arg,
                                    statement.output, func)

(* The Negate arm of gen_statement.                                        *)
gen_negate(func, output, child) ==
    LET out_ty == get_sym_ty(func, output)
    IN  IF ~out_ty.ok THEN <<Err>>
        ELSE <<LlvmType(out_ty.ty, "ll_ty")>>
             \o load_var(llvm_symbol(child), "$ll_ty", "child_tmp")
             \o <<Var("bin_tmp"), LlvmType(out_ty.ty, "out_ty_str")>>
             \o (IF llvm_binop("Subtract", out_ty.ty) = "" THEN <<Err>>
                 ELSE <<Code(llvm_binop("Subtract", out_ty.ty), "$bin_tmp",
                             IF out_ty.ty.k = "Scalar" /\ out_ty.ty.s \in {"F32", "F64"}
                             THEN "0.0" ELSE "0",
                             <<"$child_tmp">>),
                        Code("store", "", llvm_symbol(output), <<"$bin_tmp">>)>>)

(* gen_statement: the arms of the statements of the programs lowered here. *)
gen_statement(statement, func) ==
    CASE statement.kind = "UnaryOp" ->
            gen_unary_op(func, statement.output, statement.child, statement.op)
      [] statement.kind = "BinOp" -> gen_binop(func, statement)
      [] statement.kind = "Negate" -> gen_negate(func, statement.output, statement.child)
      [] statement.kind = "Cast" -> gen_cast(func, statement)
      [] statement.kind = "CUDF" -> gen_cudf(func, statement)
      [] statement.kind \in {"Merge", "Res", "NewBuilder"} ->
            gen_builder_statement(func, statement)

(* The call a ParallelFor or JumpFunction terminator emits: the callee's   *)
(* parameters, ascending, each loaded from its slot in the caller.         *)
call_with_loaded_args(params, callee) ==
    LET syms == params_sorted(DOMAIN params)
    IN  Concat([i \in 1..Len(syms) |->
               <<LlvmType(params[syms[i]], "ll_ty")>>
               \o load_var(llvm_symbol(syms[i]), "$ll_ty", "arg_tmp" \o ToString(i))])
        \o <<Code("call", "", callee,
                  [i \in 1..Len(syms) |-> "$arg_tmp" \o ToString(i)] \o <<"%cur.work">>),
             Code("br", "", "%body.end", <<>>)>>

(* gen_terminator                                                          *)
gen_terminator(terminator, sir, func) ==
    CASE terminator.t = "Branch" ->
            load_var(llvm_symbol(terminator.sym), "i1", "cond_tmp")
            \o <<Code("br.cond", "", "$cond_tmp",
                      <<"%b.b" \o ToString(terminator.f),
                        "%b.b" \o ToString(terminator.pf.cont)>>)>>
      [] terminator.t = "ParallelFor" ->
            <<AddFn(terminator.pf.cont, None), AddFn(terminator.pf.body, Some(terminator.pf))>>
            \o call_with_loaded_args(get_combined_params(sir, terminator.pf),
                                     "@f" \o ToString(terminator.pf.body) \o "_wrapper")
      [] terminator.t = "JumpBlock" ->
            <<Code("br", "", "%b.b" \o ToString(terminator.f), <<>>)>>
      [] terminator.t = "JumpFunction" ->
            <<AddFn(terminator.f, None)>>
            \o call_with_loaded_args(sir.funcs[terminator.f].params,
                                     "@f" \o ToString(terminator.f))
      [] terminator.t = "ProgramReturn" ->
            IF ~get_sym_ty(func, terminator.sym).ok THEN <<Err>>
            ELSE <<LlvmType(get_sym_ty(func, terminator.sym).ty, "ty_str")>>
                 \o load_var(llvm_symbol(terminator.sym), "$ty_str", "res_tmp")
                 \o <<Var("elem_size_ptr"), Var("elem_size"), Var("elem_storage"),
                      Var("elem_storage_typed"), Var("run_id"),
                      Code("call", "$run_id", "@get_runid", <<>>),
                      Code("call", "$elem_storage", "@weld_rt_malloc", <<"$run_id">>),
                      Code("store", "", "$elem_storage", <<"$res_tmp">>),
                      Code("call", "", "@set_result", <<"$elem_storage">>),
                      Code("br", "", "%body.end", <<>>)>>
      [] terminator.t = "EndFunction" ->
            <<Code("br", "", "%body.end", <<>>)>>
      [] terminator.t = "Crash" ->
            <<Var("run_id"),
              Code("call", "", "@weld_rt_set_errno", <<"$run_id", "Unknown">>)>>

(* gen_function                                                            *)
gen_function(sir, func) ==
    Concat([b \in 1..Len(func.blocks) |->
        <<Code("label", "", "b.b" \o ToString(func.blocks[b].id), <<>>)>>
        \o Concat([s \in 1..Len(func.blocks[b].statements) |->
               gen_statement(func.blocks[b].statements[s], func)])
        \o gen_terminator(func.blocks[b].terminator, sir, func)])

(***************************************************************************)
(* add_function, in the order of its source.                               *)
(***************************************************************************)

(* The entry block: one alloca per parameter and a store from its .in      *)
(* register, then one alloca per local, each map in its iteration order.   *)
entry_block(func, ord) ==
    LET ps == HashIter(DOMAIN func.params, ord)
        ls == HashIter(DOMAIN func.locals, ord)
    IN  Concat([i \in 1..Len(ps) |->
               <<LlvmType(func.params[ps[i]], "ty_str"),
                 Alloca(llvm_symbol(ps[i]), "$ty_str"),
                 Code("store", "", llvm_symbol(ps[i]), <<llvm_symbol(ps[i]) \o ".in">>)>>])
        \o Concat([i \in 1..Len(ls) |->
               <<LlvmType(func.locals[ls[i]], "ty_str"),
                 Alloca(llvm_symbol(ls[i]), "$ty_str")>>])
        \o <<Code("call", "%cur.tid", "@my_id_public", <<>>)>>

(* The element index of one iterator in the loop body, bound to arr_idx.   *)
arr_idx(iter) ==
    IF iter.has_start THEN
        IF iter.kind = "SimdIter" THEN <<Err>>
        ELSE <<Var("offset")>>
             \o load_var(llvm_symbol(iter.stride), "i64", "stride_str")
             \o load_var(llvm_symbol(iter.start), "i64", "start_str")
             \o <<Code("mul", "$offset", "$idx_tmp", <<"$stride_str">>),
                  Var("arr_idx"),
                  Code("add", "$arr_idx", "$start_str", <<"$offset">>)>>
    ELSE IF iter.kind = "FringeIter" THEN
        <<Var("tmp"), Var("arr_len"), Var("offset"), Var("arr_idx"),
          Code("call", "$arr_len", "$data_size", <<"$data_str">>),
          Code("udiv", "$tmp", "$arr_len", <<ToString(vec_size)>>),
          Code("mul", "$offset", "$tmp", <<ToString(vec_size)>>),
          Code("add", "$arr_idx", "$offset", <<"$idx_tmp">>)>>
    ELSE <<>>

(* One iteration of `for (i, iter) in par_for.data.iter().enumerate()` of  *)
(* loop.body.  prev_ref after iteration i is PrevRef(par_for, i).          *)
PrevRef(par_for, i) ==
    IF i = 0 THEN "undef"
    ELSE IF Len(par_for.data) = 1 THEN "$inner_elem_tmp"
    ELSE "$elem_tmp" \o ToString(i)

loop_elem(func, par_for, i) ==
    LET iter == par_for.data[i]
        elem_ty == func.locals[par_for.data_arg]
        idx == IF iter.has_start \/ iter.kind = "FringeIter" THEN "$arr_idx" ELSE "$idx_tmp"
    IN  <<LlvmType(func.params[iter.data], "data_ty_str")>>
        \o load_var(llvm_symbol(iter.data), "$data_ty_str", "data_str")
        \o <<Prefix("data_size", "$data_ty_str", ".size"),
             Prefix("data_at", "$data_ty_str",
                    IF iter.kind = "SimdIter" THEN ".vat" ELSE ".at"),
             Var("inner_elem_tmp_ptr")>>
        \o (IF Len(par_for.data) = 1 THEN <<LlvmType(elem_ty, "inner_elem_ty_str")>>
            ELSE IF elem_ty.k = "Struct" /\ i <= Len(elem_ty.a)
                 THEN <<LlvmType(elem_ty.a[i], "inner_elem_ty_str")>>
                 ELSE <<Err>>)
        \o arr_idx(iter)
        \o <<Code("call", "$inner_elem_tmp_ptr", "$data_at", <<"$data_str", idx>>)>>
        \o load_var("$inner_elem_tmp_ptr", "$inner_elem_ty_str", "inner_elem_tmp")
        \o (IF Len(par_for.data) = 1 THEN <<>>
            ELSE <<Var("elem_tmp" \o ToString(i)),
                   Code("insertvalue", PrevRef(par_for, i), PrevRef(par_for, i - 1),
                        <<"$inner_elem_tmp", ToString(i - 1), "$elem_ty_str">>)>>)

(* The loop prologue of a loop body: loop.start and loop.body.             *)
loop_prologue(func, par_for) ==
    <<LlvmType(func.params[par_for.builder], "bld_ty_str"),
      Code("store", "", llvm_symbol(par_for.builder_arg),
           <<llvm_symbol(par_for.builder) \o ".in">>),
      Alloca("%cur.idx", "i64"),
      Code("store", "", "%cur.idx", <<"%lower.idx">>),
      Code("br", "", "%loop.start", <<>>),
      Code("label", "", "loop.start", <<>>)>>
    \o load_var("%cur.idx", "i64", "idx_tmp")
    \o (IF par_for.innermost THEN <<>>
        ELSE <<Var("work_idx_ptr"),
               Code("store.field", "", "%cur.work", <<"3", "$idx_tmp">>)>>)
    \o <<Var("idx_cmp")>>
    \o (IF par_for.data[1].kind = "SimdIter"
        THEN <<Var("check_with_vec"),
               Code("add", "$check_with_vec", "$idx_tmp", <<ToString(vec_size)>>),
               Code("icmp ule", "$idx_cmp", "$check_with_vec", <<"%upper.idx">>)>>
        ELSE <<Code("icmp ult", "$idx_cmp", "$idx_tmp", <<"%upper.idx">>)>>)
    \o <<Code("br.cond", "", "$idx_cmp", <<"%loop.body", "%loop.end">>),
         Code("label", "", "loop.body", <<>>),
         LlvmType(func.locals[par_for.data_arg], "elem_ty_str")>>
    \o Concat([i \in 1..Len(par_for.data) |-> loop_elem(func, par_for, i)])
    \o <<Code("store", "", llvm_symbol(par_for.data_arg),
              <<PrevRef(par_for, Len(par_for.data))>>),
         Code("store", "", llvm_symbol(par_for.idx_arg), <<"$idx_tmp">>)>>

loop_epilogue_wide(par_for) ==
    <<Code("br", "", "%loop.terminator", <<>>),
      Code("label", "", "loop.terminator", <<>>)>>
    \o load_var("%cur.idx", "i64", "idx_tmp")
    \o <<Var("idx_inc"),
         Code("add", "$idx_inc", "$idx_tmp", <<ToString(vec_size)>>),
         Code("store", "", "%cur.idx", <<"$idx_inc">>),
         Code("br", "", "%loop.start", <<>>),
         Code("label", "", "loop.end", <<>>)>>

(* body.end of a loop body: loop.terminator and loop.end.                  *)
loop_epilogue(par_for) ==
    <<Code("br", "", "%loop.terminator", <<>>),
      Code("label", "", "loop.terminator", <<>>)>>
    \o load_var("%cur.idx", "i64", "idx_tmp")
    \o <<Var("idx_inc"),
         Code("add", "$idx_inc", "$idx_tmp",
              <<ToString(IF par_for.data[1].kind = "SimdIter" THEN vec_size ELSE 1)>>),
         Code("store", "", "%cur.idx", <<"$idx_inc">>),
         Code("br", "", "%loop.start", <<>>),
         Code("label", "", "loop.end", <<>>)>>

(* @f<id>, the function itself.                                            *)
add_body(sir, func, containing_loop, ord) ==
    get_arg_str(func.params, ".in").code
    \o entry_block(func, ord)
    \o (IF containing_loop.some THEN loop_prologue(func, containing_loop.pf) ELSE <<>>)
    \o <<Code("br", "", "%b.b" \o ToString(func.blocks[1].id), <<>>)>>
    \o gen_function(sir, func)
    \o <<Code("label", "", "body.end", <<>>)>>
    \o (IF containing_loop.some THEN loop_epilogue(containing_loop.pf) ELSE <<>>)
    \o <<Code("ret", "", "", <<>>),
         ToBody("f" \o ToString(func.id),
                IF containing_loop.some
                THEN get_arg_str(func.params, ".in").val \o <<"%lower.idx", "%upper.idx">>
                ELSE get_arg_str(func.params, ".in").val)>>

GrainSize == 4096

(* The wrapper's num_iters, from the first iterator; a FringeIter binds    *)
(* fringe_start_str (tmp2) as well.                                        *)
wrapper_num_iters(func, par_for) ==
    LET first == par_for.data[1]
        data_str == llvm_symbol(first.data)
    IN  <<LlvmType(func.params[first.data], "data_ty_str"),
          Prefix("data_size", "$data_ty_str", ".size"),
          Var("num_iters_str")>>
        \o (IF first.kind \in {"SimdIter", "ScalarIter"} THEN
                IF ~first.has_start
                THEN <<Code("call", "$num_iters_str", "$data_size", <<data_str>>)>>
                ELSE IF first.kind = "SimdIter" THEN <<Err>>
                ELSE <<Var("diff_tmp"),
                       Code("sub", "$diff_tmp", llvm_symbol(first.end),
                            <<llvm_symbol(first.start)>>),
                       Code("udiv", "$num_iters_str", "$diff_tmp",
                            <<llvm_symbol(first.stride)>>)>>
            ELSE IF first.has_start THEN <<Err>>
            ELSE <<Var("arr_len"), Var("tmp"), Var("fringe_start_str"),
                   Code("call", "$arr_len", "$data_size", <<data_str>>),
                   Code("udiv", "$tmp", "$arr_len", <<ToString(vec_size)>>),
                   Code("mul", "$fringe_start_str", "$tmp", <<ToString(vec_size)>>),
                   Code("sub", "$num_iters_str", "$arr_len", <<"$fringe_start_str">>)>>)

(* The bounds check of the wrapper for one iterator.  A FringeIter that is *)
(* not the first iterator of a loop whose first is no FringeIter unwraps a *)
(* None: the lowering panics, which ends it as an error does.              *)
wrapper_bounds_check(func, par_for, iter) ==
    LET start_str == IF iter.has_start THEN llvm_symbol(iter.start)
                     ELSE IF iter.kind = "FringeIter" THEN "$fringe_start_str" ELSE "0"
        stride_str == IF iter.has_start THEN llvm_symbol(iter.stride) ELSE "1"
    IN  <<LlvmType(func.params[iter.data], "data_ty_str"),
          Prefix("data_size", "$data_ty_str", ".size"),
          Var("vec_size_str"),
          Code("call", "$vec_size_str", "$data_size", <<llvm_symbol(iter.data)>>)>>
        \o (IF ~iter.has_start /\ iter.kind = "FringeIter"
               /\ par_for.data[1].kind # "FringeIter" THEN <<Err>>
            ELSE <<Var("t0"), Var("t1"), Var("t2"), Var("cond"),
                   Var("next_bounds_check_label"),
                   Code("sub", "$t0", "$num_iters_str", <<"1">>),
                   Code("mul", "$t1", stride_str, <<"$t0">>),
                   Code("add", "$t2", "$t1", <<start_str>>),
                   Code("icmp ult", "$cond", "$t2", <<"$vec_size_str">>),
                   Code("br.cond", "", "$cond",
                        <<"$next_bounds_check_label", "%fn.boundcheckfailed">>),
                   Code("label", "", "$next_bounds_check_label", <<>>)>>)

(* fn.boundcheckfailed                                                     *)
wrapper_failed_fallthrough ==
    <<Code("br", "", "%fn.boundcheckpassed", <<>>),
      Code("label", "", "fn.boundcheckfailed", <<>>),
      Var("run_id"),
      Code("call", "$run_id", "@get_runid", <<>>),
      Code("call", "", "@weld_rt_set_errno", <<"$run_id", "BadIteratorLength">>),
      Code("call", "", "@weld_abort_thread", <<>>),
      Code("label", "", "fn.boundcheckpassed", <<>>)>>

wrapper_failed ==
    <<Code("br", "", "%fn.boundcheckpassed", <<>>),
      Code("label", "", "fn.boundcheckfailed", <<>>),
      Var("run_id"),
      Code("call", "$run_id", "@get_runid", <<>>),
      Code("call", "", "@weld_rt_set_errno", <<"$run_id", "BadIteratorLength">>),
      Code("call", "", "@weld_abort_thread", <<>>),
      Code("br", "", "%fn.end", <<>>),
      Code("label", "", "fn.boundcheckpassed", <<>>)>>

(* for.ser and for.par                                                     *)
wrapper_dispatch_always_serial(sir, func, par_for) ==
    LET cont_params == sir.funcs[par_for.cont].params
    IN  <<Var("bound_cmp")>>
        \o (IF TRUE
            THEN <<Code("icmp ule", "$bound_cmp", "$num_iters_str", <<ToString(GrainSize)>>),
                   Code("br.cond", "", "$bound_cmp", <<"%for.ser", "%for.par">>),
                   Code("label", "", "for.ser", <<>>)>>
                 \o get_arg_str(func.params, "").code
                 \o <<Code("call", "", "@f" \o ToString(func.id),
                           get_arg_str(func.params, "").val \o <<"0", "$num_iters_str">>)>>
                 \o get_arg_str(cont_params, "").code
                 \o <<Code("call", "", "@f" \o ToString(par_for.cont),
                           get_arg_str(cont_params, "").val),
                      Code("br", "", "%fn.end", <<>>)>>
            ELSE <<Code("br", "", "%for.par", <<>>)>>)
        \o <<Code("label", "", "for.par", <<>>)>>
        \o get_arg_struct(func.params, "body_struct")
        \o get_arg_struct(cont_params, "cont_struct")
        \o <<Code("call", "", "@pl_start_loop",
                  <<"%cur.work", "$body_struct", "$cont_struct",
                    "@f" \o ToString(func.id) \o "_par",
                    "@f" \o ToString(par_for.cont) \o "_par",
                    "0", "$num_iters_str",
                    ToString(IF par_for.innermost THEN GrainSize ELSE 1)>>),
             Code("br", "", "%fn.end", <<>>),
             Code("label", "", "fn.end", <<>>),
             Code("ret", "", "", <<>>)>>

wrapper_dispatch_cont_first(sir, func, par_for) ==
    LET cont_params == sir.funcs[par_for.cont].params
    IN  <<Var("bound_cmp")>>
        \o (IF par_for.innermost
            THEN <<Code("icmp ule", "$bound_cmp", "$num_iters_str", <<ToString(GrainSize)>>),
                   Code("br.cond", "", "$bound_cmp", <<"%for.ser", "%for.par">>),
                   Code("label", "", "for.ser", <<>>)>>
                 \o get_arg_str(cont_params, "").code
                 \o <<Code("call", "", "@f" \o ToString(par_for.cont),
                           get_arg_str(cont_params, "").val)>>
                 \o get_arg_str(func.params, "").code
                 \o <<Code("call", "", "@f" \o ToString(func.id),
                           get_arg_str(func.params, "").val \o <<"0", "$num_iters_str">>),
                      Code("br", "", "%fn.end", <<>>)>>
            ELSE <<Code("br", "", "%for.par", <<>>)>>)
        \o <<Code("label", "", "for.par", <<>>)>>
        \o get_arg_struct(func.params, "body_struct")
        \o get_arg_struct(cont_params, "cont_struct")
        \o <<Code("call", "", "@pl_start_loop",
                  <<"%cur.work", "$body_struct", "$cont_struct",
                    "@f" \o ToString(func.id) \o "_par",
                    "@f" \o ToString(par_for.cont) \o "_par",
                    "0", "$num_iters_str",
                    ToString(IF par_for.innermost THEN GrainSize ELSE 1)>>),
             Code("br", "", "%fn.end", <<>>),
             Code("label", "", "fn.end", <<>>),
             Code("ret", "", "", <<>>)>>

wrapper_dispatch(sir, func, par_for) ==
    LET cont_params == sir.funcs[par_for.cont].params
    IN  <<Var("bound_cmp")>>
        \o (IF par_for.innermost
            THEN <<Code("icmp ule", "$bound_cmp", "$num_iters_str", <<ToString(GrainSize)>>),
                   Code("br.cond", "", "$bound_cmp", <<"%for.ser", "%for.par">>),
                   Code("label", "", "for.ser", <<>>)>>
                 \o get_arg_str(func.params, "").code
                 \o <<Code("call", "", "@f" \o ToString(func.id),
                           get_arg_str(func.params, "").val \o <<"0", "$num_iters_str">>)>>
                 \o get_arg_str(cont_params, "").code
                 \o <<Code("call", "", "@f" \o ToString(par_for.cont),
                           get_arg_str(cont_params, "").val),
                      Code("br", "", "%fn.end", <<>>)>>
            ELSE <<Code("br", "", "%for.par", <<>>)>>)
        \o <<Code("label", "", "for.par", <<>>)>>
        \o get_arg_struct(func.params, "body_struct")
        \o get_arg_struct(cont_params, "cont_struct")
        \o <<Code("call", "", "@pl_start_loop",
                  <<"%cur.work", "$body_struct", "$cont_struct",
                    "@f" \o ToString(func.id) \o "_par",
                    "@f" \o ToString(par_for.cont) \o "_par",
                    "0", "$num_iters_str",
                    ToString(IF par_for.innermost THEN GrainSize ELSE 1)>>),
             Code("br", "", "%fn.end", <<>>),
             Code("label", "", "fn.end", <<>>),
             Code("ret", "", "", <<>>)>>

(* @f<id>_wrapper                                                          *)
add_wrapper(sir, func, par_for) ==
    <<NewCtx>>
    \o get_arg_str(get_combined_params(sir, par_for), "").code
    \o wrapper_num_iters(func, par_for)
    \o Concat([i \in 1..Len(par_for.data) |->
                  wrapper_bounds_check(func, par_for, par_for.data[i])])
    \o wrapper_failed
    \o wrapper_dispatch(sir, func, par_for)
    \o <<ToBody("f" \o ToString(func.id) \o "_wrapper",
                get_arg_str(get_combined_params(sir, par_for), "").val)>>

(* @f<id>_par of a loop body                                               *)
add_body_trampoline(func) ==
    <<NewCtx>>
    \o unload_arg_struct(func.params)
    \o <<Var("lower_bound_ptr"), Var("lower_bound"),
         Var("upper_bound_ptr"), Var("upper_bound"),
         Code("load.field", "$lower_bound", "%cur.work", <<"1">>),
         Code("load.field", "$upper_bound", "%cur.work", <<"2">>)>>
    \o get_arg_str(func.params, "").code
    \o create_new_pieces(func.params)
    \o <<Code("label", "", "fn_call", <<>>),
         Code("call", "", "@f" \o ToString(func.id),
              get_arg_str(func.params, "").val \o <<"$lower_bound", "$upper_bound">>),
         Code("ret", "", "", <<>>),
         ToBody("f" \o ToString(func.id) \o "_par", <<"%cur.work">>)>>

(* @f<cont>_par of a continuation                                          *)
add_cont_trampoline_no_pieces(sir, par_for) ==
    <<NewCtx>>
    \o unload_arg_struct(sir.funcs[par_for.cont].params)
    \o <<Code("label", "", "fn_call", <<>>)>>
    \o get_arg_str(sir.funcs[par_for.cont].params, "").code
    \o <<Code("call", "", "@f" \o ToString(par_for.cont),
              get_arg_str(sir.funcs[par_for.cont].params, "").val),
         Code("ret", "", "", <<>>),
         ToBody("f" \o ToString(par_for.cont) \o "_par", <<"%cur.work">>)>>

add_cont_trampoline(sir, par_for) ==
    <<NewCtx>>
    \o unload_arg_struct(sir.funcs[par_for.cont].params)
    \o create_new_pieces(sir.funcs[par_for.cont].params)
    \o <<Code("label", "", "fn_call", <<>>)>>
    \o get_arg_str(sir.funcs[par_for.cont].params, "").code
    \o <<Code("call", "", "@f" \o ToString(par_for.cont),
              get_arg_str(sir.funcs[par_for.cont].params, "").val),
         Code("ret", "", "", <<>>),
         ToBody("f" \o ToString(par_for.cont) \o "_par", <<"%cur.work">>)>>

(* @f0_par                                                                 *)
add_top_trampoline(sir) ==
    <<NewCtx>>
    \o unload_arg_struct(sir.funcs[0].params)
    \o get_arg_str(sir.funcs[0].params, "").code
    \o <<Code("call", "", "@f0", get_arg_str(sir.funcs[0].params, "").val),
         Code("ret", "", "", <<>>),
         ToBody("f0_par", <<"%cur.work">>)>>

(* The steps of add_function after the visited check.                      *)
add_function_steps(sir, func, containing_loop, ord) ==
    add_body(sir, func, containing_loop, ord)
    \o (IF containing_loop.some
        THEN add_wrapper(sir, func, containing_loop.pf)
             \o add_body_trampoline(func)
             \o add_cont_trampoline(sir, containing_loop.pf)
        ELSE <<>>)
    \o (IF func.id = 0 THEN add_top_trampoline(sir) ELSE <<>>)

(* self.visited.insert(func.id): the set afterwards, and whether the id    *)
(* was newly inserted.                                                     *)
visited_insert_always(visited, id) ==
    [set |-> visited \cup {id}, inserted |-> TRUE]

visited_insert(visited, id) ==
    [set |-> visited \cup {id}, inserted |-> id \notin visited]

(* LlvmGenerator::add_function: the generator it leaves and whether it     *)
(* returned Ok.                                                            *)
AddFunctionResult(st) == [g |-> st.g, ok |-> st.ok]

add_function(g, sir, fid, containing_loop, ord) ==
    IF ~visited_insert(g.visited, fid).inserted THEN [g |-> g, ok |-> TRUE]
    ELSE AddFunctionResult(
             Run(St([g EXCEPT !.visited = visited_insert(g.visited, fid).set],
                    NewFunctionContext, TRUE, NoEnv),
                 add_function_steps(sir, sir.funcs[fid], containing_loop, ord),
                 sir, ord))

(* LlvmGenerator::add_function_on_pointers                                 *)
arg_pos(sir, sym) ==
    (CHOOSE i \in 1..Len(sir.top_params) : sir.top_params[i].name = sym) - 1

add_function_on_pointers_steps_errno_first(name, sir, ord) ==
    LET syms == HashIter(DOMAIN sir.funcs[0].params, ord)
    IN  <<AddFn(0, None),
          LlvmType(Struct([i \in 1..Len(sir.top_params) |-> sir.top_params[i].ty]),
                   "args_type"),
          NewCtx,
          Code("inttoptr", "%r.inp_typed", "%r.input", <<>>),
          Code("load.struct", "%r.inp_val", "%r.inp_typed", <<"%input_arg_t">>),
          Code("extractvalue", "%r.args", "%r.inp_val", <<"0">>),
          Code("extractvalue", "%r.nworkers", "%r.inp_val", <<"1">>),
          Code("extractvalue", "%r.memlimit", "%r.inp_val", <<"2">>),
          Code("call", "", "@set_nworkers", <<"%r.nworkers">>),
          Code("call", "", "@weld_rt_init", <<"%r.memlimit">>),
          Code("inttoptr", "%r.args_typed", "%r.args", <<>>),
          Code("load.struct", "%r.args_val", "%r.args_typed", <<"$args_type">>)>>
        \o [i \in 1..Len(syms) |->
               Code("extractvalue", llvm_symbol(syms[i]), "%r.args_val",
                    <<ToString(arg_pos(sir, syms[i]))>>)]
        \o get_arg_struct(sir.funcs[0].params, "run_struct")
        \o <<Var("rid"), Var("errno"), Var("tmp0"), Var("tmp1"), Var("tmp2"),
             Var("size_ptr"), Var("size"), Var("bytes"), Var("typed_out_ptr"),
             Var("final_address"),
             Code("call", "$rid", "@get_runid", <<>>),
             Code("call", "$errno", "@weld_rt_get_errno", <<"$rid">>),
             Code("call", "", "@execute", <<"@f0_par", "$run_struct">>),
             Code("call", "%res_ptr", "@get_result", <<>>),
             Code("ptrtoint", "%res_address", "%res_ptr", <<>>),
             Code("insertvalue", "$tmp0", "undef", <<"%res_address", "0", "%output_arg_t">>),
             Code("insertvalue", "$tmp1", "$tmp0", <<"$rid", "1", "%output_arg_t">>),
             Code("insertvalue", "$tmp2", "$tmp1", <<"$errno", "2", "%output_arg_t">>),
             Code("call", "$bytes", "@malloc", <<"%output_arg_t">>),
             Code("bitcast", "$typed_out_ptr", "$bytes", <<>>),
             Code("store.args", "", "$typed_out_ptr", <<"$tmp2", "%output_arg_t">>),
             Code("ptrtoint", "$final_address", "$typed_out_ptr", <<>>),
             Code("ret", "", "$final_address", <<>>),
             ToBody(name, <<"%r.input">>)>>

add_function_on_pointers_steps(name, sir, ord) ==
    LET syms == HashIter(DOMAIN sir.funcs[0].params, ord)
    IN  <<AddFn(0, None),
          LlvmType(Struct([i \in 1..Len(sir.top_params) |-> sir.top_params[i].ty]),
                   "args_type"),
          NewCtx,
          Code("inttoptr", "%r.inp_typed", "%r.input", <<>>),
          Code("load.struct", "%r.inp_val", "%r.inp_typed", <<"%input_arg_t">>),
          Code("extractvalue", "%r.args", "%r.inp_val", <<"0">>),
          Code("extractvalue", "%r.nworkers", "%r.inp_val", <<"1">>),
          Code("extractvalue", "%r.memlimit", "%r.inp_val", <<"2">>),
          Code("call", "", "@set_nworkers", <<"%r.nworkers">>),
          Code("call", "", "@weld_rt_init", <<"%r.memlimit">>),
          Code("inttoptr", "%r.args_typed", "%r.args", <<>>),
          Code("load.struct", "%r.args_val", "%r.args_typed", <<"$args_type">>)>>
        \o [i \in 1..Len(syms) |->
               Code("extractvalue", llvm_symbol(syms[i]), "%r.args_val",
                    <<ToString(arg_pos(sir, syms[i]))>>)]
        \o get_arg_struct(sir.funcs[0].params, "run_struct")
        \o <<Var("rid"), Var("errno"), Var("tmp0"), Var("tmp1"), Var("tmp2"),
             Var("size_ptr"), Var("size"), Var("bytes"), Var("typed_out_ptr"),
             Var("final_address"),
             Code("call", "", "@execute", <<"@f0_par", "$run_struct">>),
             Code("call", "%res_ptr", "@get_result", <<>>),
             Code("ptrtoint", "%res_address", "%res_ptr", <<>>),
             Code("call", "$rid", "@get_runid", <<>>),
             Code("call", "$errno", "@weld_rt_get_errno", <<"$rid">>),
             Code("insertvalue", "$tmp0", "undef", <<"%res_address", "0", "%output_arg_t">>),
             Code("insertvalue", "$tmp1", "$tmp0", <<"$rid", "1", "%output_arg_t">>),
             Code("insertvalue", "$tmp2", "$tmp1", <<"$errno", "2", "%output_arg_t">>),
             Code("call", "$bytes", "@malloc", <<"%output_arg_t">>),
             Code("bitcast", "$typed_out_ptr", "$bytes", <<>>),
             Code("store.args", "", "$typed_out_ptr", <<"$tmp2", "%output_arg_t">>),
             Code("ptrtoint", "$final_address", "$typed_out_ptr", <<>>),
             Code("ret", "", "$final_address", <<>>),
             ToBody(name, <<"%r.input">>)>>

add_function_on_pointers(g, name, sir, ord) ==
    AddFunctionResult(
        Run(St(g, NewFunctionContext, TRUE, NoEnv),
            add_function_on_pointers_steps(name, sir, ord), sir, ord))

(***************************************************************************)
(* The SIR programs lowered here: three functions, f0 the entry.           *)
(***************************************************************************)
I64 == Scalar("I64")
F64 == Scalar("F64")

sym_a == Symbol("a", 0)
sym_b == Symbol("b", 0)
sym_ba == Symbol("ba", 0)
sym_e == Symbol("e", 0)
sym_end == Symbol("end", 0)
sym_i == Symbol("i", 0)
sym_start == Symbol("start", 0)
sym_stride == Symbol("stride", 0)
sym_v == Symbol("v", 0)
sym_w == Symbol("w", 0)
sym_x == Symbol("x", 0)
sym_y == Symbol("y", 0)
sym_x1 == Symbol("x", 1)
sym_y1 == Symbol("y", 1)

ScalarIter(data) == Iter(data, "ScalarIter", FALSE, NoSym, NoSym, NoSym)
SimdIter(data) == Iter(data, "SimdIter", FALSE, NoSym, NoSym, NoSym)
FringeIter(data) == Iter(data, "FringeIter", FALSE, NoSym, NoSym, NoSym)
WithStart(iter) ==
    [iter EXCEPT !.has_start = TRUE, !.start = sym_start, !.end = sym_end,
                 !.stride = sym_stride]

Loop(data, innermost) ==
    ParallelForData(1, 2, data, sym_b, sym_ba, sym_i, sym_e, innermost)

Loops ==
    { Loop(<<ScalarIter(sym_v)>>, TRUE),
      Loop(<<ScalarIter(sym_v)>>, FALSE),
      Loop(<<WithStart(ScalarIter(sym_v))>>, TRUE),
      Loop(<<ScalarIter(sym_v), ScalarIter(sym_w)>>, TRUE),
      Loop(<<ScalarIter(sym_v), WithStart(ScalarIter(sym_w))>>, FALSE),
      Loop(<<FringeIter(sym_v)>>, TRUE),
      Loop(<<SimdIter(sym_v)>>, TRUE),
      Loop(<<WithStart(SimdIter(sym_v))>>, TRUE),
      Loop(<<WithStart(FringeIter(sym_v))>>, TRUE),
      Loop(<<ScalarIter(sym_v), WithStart(FringeIter(sym_w))>>, TRUE) }

BasicBlock(id, statements, terminator) ==
    [id |-> id, statements |-> statements, terminator |-> terminator]

SirFunction(id, params, locals, blocks) ==
    [id |-> id, params |-> params, locals |-> locals, blocks |-> blocks]

(* The type of the loop element: the data's element for one iterator, a    *)
(* struct of them for several.                                             *)
ElemType(pf) ==
    LET one(iter) == IF iter.kind = "SimdIter" THEN Simd("I32") ELSE Scalar("I32")
    IN  IF Len(pf.data) = 1 THEN one(pf.data[1])
        ELSE Struct([k \in 1..Len(pf.data) |-> one(pf.data[k])])

LogOk == UnaryOp("Log", sym_x1, sym_y1)
LogBad == UnaryOp("Log", sym_x1, sym_i)

Func0(statements, terminator) ==
    SirFunction(0,
        (sym_v :> Vector(Scalar("I32"))) @@ (sym_w :> Vector(Scalar("I32"))),
        (sym_a :> Merger(Scalar("I32"), "Add")) @@ (sym_b :> Appender(Scalar("I32")))
            @@ (sym_x :> GroupMerger(Scalar("I32"), Scalar("I32")))
            @@ (sym_y :> Appender(Struct(<<Scalar("I32"), Scalar("I32")>>)))
            @@ (sym_start :> I64) @@ (sym_end :> I64) @@ (sym_stride :> I64)
            @@ (sym_i :> Scalar("I32")) @@ (sym_x1 :> F64) @@ (sym_y1 :> F64),
        <<BasicBlock(0, statements, terminator)>>)

Func1(pf) ==
    SirFunction(1,
        (sym_a :> Merger(Scalar("I32"), "Add")) @@ (sym_b :> Appender(Scalar("I32")))
            @@ (sym_x :> GroupMerger(Scalar("I32"), Scalar("I32")))
            @@ (sym_v :> Vector(Scalar("I32"))) @@ (sym_w :> Vector(Scalar("I32")))
            @@ (sym_start :> I64) @@ (sym_end :> I64) @@ (sym_stride :> I64),
        (sym_ba :> Appender(Scalar("I32"))) @@ (sym_e :> ElemType(pf)) @@ (sym_i :> I64),
        <<BasicBlock(0, <<>>, EndFunction)>>)

Func2(statements, terminator) ==
    SirFunction(2,
        (sym_a :> Merger(Scalar("I32"), "Add")) @@ (sym_b :> Appender(Scalar("I32")))
            @@ (sym_y :> Appender(Struct(<<Scalar("I32"), Scalar("I32")>>))),
        (sym_i :> Scalar("I32")) @@ (sym_x1 :> F64) @@ (sym_y1 :> F64),
        <<BasicBlock(0, statements, terminator)>>)

(* f2 with the symbol a both a parameter and a local.                      *)
Func2Twice ==
    SirFunction(2, Func2(<<>>, EndFunction).params,
                Func2(<<>>, EndFunction).locals @@ (sym_a :> Scalar("I32")),
                <<BasicBlock(0, <<>>, EndFunction)>>)

TypedParam(name, ty) == [name |-> name, ty |-> ty]

SirProgram(f0, f1, f2) ==
    [funcs |-> (0 :> f0) @@ (1 :> f1) @@ (2 :> f2),
     top_params |-> <<TypedParam(sym_w, Vector(Scalar("I32"))),
                      TypedParam(sym_v, Vector(Scalar("I32")))>>]

LoopProgram(pf) ==
    SirProgram(Func0(<<>>, ParallelFor(pf)), Func1(pf), Func2(<<>>, EndFunction))

Programs ==
    { LoopProgram(pf) : pf \in Loops }
    \cup { SirProgram(Func0(<<>>, JumpFunction(2)), Func1(Loop(<<ScalarIter(sym_v)>>, TRUE)),
                      Func2(s, t)) :
             s \in {<<>>, <<LogOk>>, <<LogBad>>}, t \in {EndFunction, Crash, ProgramReturn(sym_b)} }
    \cup { SirProgram(Func0(<<LogBad>>, ParallelFor(Loop(<<ScalarIter(sym_v)>>, TRUE))),
                      Func1(Loop(<<ScalarIter(sym_v)>>, TRUE)), Func2(<<>>, EndFunction)),
           SirProgram(Func0(<<LogOk>>, ProgramReturn(sym_v)),
                      Func1(Loop(<<ScalarIter(sym_v)>>, TRUE)), Func2(<<>>, EndFunction)),
           SirProgram(Func0(<<>>, JumpFunction(2)), Func1(Loop(<<ScalarIter(sym_v)>>, TRUE)),
                      Func2Twice) }

NoProgram == SirProgram(Func0(<<>>, EndFunction), Func1(Loop(<<ScalarIter(sym_v)>>, TRUE)),
                        Func2(<<>>, EndFunction))



(***************************************************************************)
(* The types requested of the registry.                                    *)
(***************************************************************************)
I32 == Scalar("I32")
Bool == Scalar("Bool")
KV == Struct(<<I32, I32>>)
FieldTypes == {I32, Bool}

RECURSIVE SeqsUpTo(_, _)
SeqsUpTo(S, n) ==
    IF n = 0 THEN {<<>>}
    ELSE LET shorter == SeqsUpTo(S, n - 1)
         IN  shorter \cup {Append(q, x) : q \in {p \in shorter : Len(p) = n - 1}, x \in S}

FlatStructs == {Struct(f) : f \in SeqsUpTo(FieldTypes, MaxFields) \ {<<>>}}

TypeUniverse ==
    {I32, Bool, Scalar("F64"), Simd("I32")}
    \cup FlatStructs
    \cup {Struct(<<Struct(<<I32>>)>>), Vector(I32), Vector(KV), Dict(I32, I32)}
    \cup {Appender(KV), Appender(I32), GroupMerger(I32, I32),
          Merger(I32, "Add"), Merger(I32, "Multiply"),
          DictMerger(I32, I32, "Add"), DictMerger(I32, I32, "Multiply"),
          DictMerger(I32, Bool, "Add"), VecMerger(I32, "Add"),
          Struct(<<DictMerger(I32, Bool, "Add")>>)}

(***************************************************************************)
(* Specification of the type registry: a sequence of llvm_type requests    *)
(* against one generator.  hist records, for each request, the type, the   *)
(* result, and the id counters before the request.                         *)
(***************************************************************************)
Counters(g) == <<g.struct_ids, g.vec_ids, g.merger_ids, g.dict_ids>>

(* The name the registry holds for a type, "" when it holds none.          *)
Lookup(map, key) == IF key \in DOMAIN map THEN map[key] ELSE ""

NameOf(g, ty) ==
    CASE ty.k = "Scalar" -> ScalarName(ty.s)
      [] ty.k = "Simd" -> Lookup(g.simd_names, ty.s)
      [] ty.k = "Struct" -> Lookup(g.struct_names, ty.a)
      [] ty.k = "Vector" -> Lookup(g.vec_names, ty.a[1])
      [] ty.k = "Dict" -> Lookup(g.dict_names, Struct(ty.a))
      [] OTHER -> Lookup(g.bld_names, ty)

(* The machine that executes emitted code, before anything is executed.   *)
NoWork == [data |-> 0, lower |-> 0, upper |-> 0, idx |-> 0, full_task |-> 0]

NoLoop == [phase |-> "none", next |-> 0, upper |-> 0, grain |-> 0, tasks |-> 0,
           body |-> "", cont |-> "", body_data |-> 0, cont_data |-> 0]

NoRun == [fn |-> "", pc |-> 0, regs |-> <<>>, sregs |-> <<>>, heap |-> <<>>,
          work |-> NoWork, trace |-> <<>>, path |-> <<>>, errno |-> "",
          rt |-> NoLoop, input |-> <<>>, from |-> 0,
          calls |-> <<>>, result |-> 0, resume |-> [fn |-> "", pc |-> 0], ret |-> 0]

NoCall == [op |-> "", fid |-> 0, some |-> FALSE, ok |-> TRUE,
           inserted |-> FALSE, before |-> 0, n |-> 0]

Init ==
    /\ gen = NewGenerator
    /\ hist = <<>>
    /\ program = NoProgram
    /\ hash_order = "asc"
    /\ call = NoCall
    /\ run = NoRun

RequestType(ty) ==
    /\ Len(hist) < MaxRequests
    /\ LET r == llvm_type(gen, ty)
       IN  /\ gen' = r.g
           /\ hist' = Append(hist, [ty |-> ty, ok |-> r.ok, name |-> r.name,
                                    before |-> Counters(gen),
                                    prior |-> NameOf(gen, ty),
                                    known |-> \E i \in DOMAIN hist :
                                                 hist[i].ty = ty /\ hist[i].ok])
    /\ UNCHANGED <<program, hash_order, call, run>>

Next == \E ty \in TypeUniverse : RequestType(ty)

Spec == Init /\ [][Next]_vars

(***************************************************************************)
(* Lowering: a program is given, its hash maps iterate in one order,      *)
(* and functions are added to one generator.  call is the last call made:  *)
(* its operation and arguments, what it returned, whether it inserted its  *)
(* id into visited, the number of functions in the body buffer before it,  *)
(* and the number of calls made so far.                                    *)
(***************************************************************************)
Terminators(sir) ==
    UNION {{sir.funcs[f].blocks[k].terminator : k \in DOMAIN sir.funcs[f].blocks} :
              f \in DOMAIN sir.funcs}

ContainingLoops(sir, fid) ==
    {None} \cup {Some(t.pf) : t \in {u \in Terminators(sir) :
                                         u.t = "ParallelFor" /\ u.pf.body = fid}}

InitGen ==
    /\ gen = NewGenerator
    /\ hist = <<>>
    /\ program \in Programs
    /\ hash_order \in HashOrders
    /\ call = NoCall
    /\ run = NoRun

AddFunction(fid, containing_loop) ==
    /\ call.n < MaxCalls
    /\ LET r == add_function(gen, program, fid, containing_loop, hash_order)
       IN  /\ gen' = r.g
           /\ call' = [op |-> "add_function", fid |-> fid, some |-> containing_loop.some,
                       ok |-> r.ok, inserted |-> fid \notin gen.visited,
                       before |-> Len(gen.body_code), n |-> call.n + 1]
    /\ UNCHANGED <<hist, program, hash_order, run>>

AddFunctionOnPointers ==
    /\ call.n < MaxCalls
    /\ LET r == add_function_on_pointers(gen, "run", program, hash_order)
       IN  /\ gen' = r.g
           /\ call' = [op |-> "add_function_on_pointers", fid |-> 0, some |-> FALSE,
                       ok |-> r.ok, inserted |-> 0 \notin gen.visited,
                       before |-> Len(gen.body_code), n |-> call.n + 1]
    /\ UNCHANGED <<hist, program, hash_order, run>>

NextGen ==
    \/ \E fid \in DOMAIN program.funcs :
          \E containing_loop \in ContainingLoops(program, fid) :
             AddFunction(fid, containing_loop)
    \/ AddFunctionOnPointers

SpecGen == InitGen /\ [][NextGen]_vars

(***************************************************************************)
(* Execution of the emitted code.                                          *)
(*                                                                         *)
(* The wrapper of a lowered loop is entered with a value for each of its   *)
(* parameters and is executed an instruction at a time; so are the         *)
(* trampolines, when the runtime invokes them with a work descriptor.  A   *)
(* vector is its length, a builder an opaque handle.  An i64 is a word of  *)
(* WordBits bits.  run is the machine:                                     *)
(*   fn, pc     the function being executed ("" for none) and the index of *)
(*              its next instruction                                       *)
(*   regs       the scalar registers, sregs the struct registers           *)
(*   heap       the malloc'ed argument structs, by address                 *)
(*   work       the work descriptor %cur.work points to                    *)
(*   trace      the calls made so far: the caller, the callee, the operand *)
(*              names and the operand values                               *)
(*   path       the labels reached so far, and the functions the runtime   *)
(*              entered                                                    *)
(*   errno      the errno of the run                                       *)
(*   rt         the runtime's loop, once pl_start_loop has been called     *)
(*   input      the values the wrapper was entered with                    *)
(*   from       the length of trace when the current function was entered  *)
(*   calls      the callee of every call instruction executed so far       *)
(*   result     the address the runtime holds as the result of the run     *)
(*   resume     where the caller of @execute continues when it returns     *)
(*   ret        the value the function that returned last returned         *)
(***************************************************************************)
Word == 2 ^ WordBits

(* The decimal literals of the emitted code: field indices, the vector     *)
(* size and the grain size.                                                *)
Literals == 0..15 \cup {GrainSize}

EndsWith(s, suffix) ==
    Len(s) >= Len(suffix) /\ SubSeq(s, Len(s) - Len(suffix) + 1, Len(s)) = suffix

(* The definition appended to the body buffer under a name.                *)
Def(g, name) == g.body_code[CHOOSE k \in DOMAIN g.body_code : g.body_code[k].name = name]

(* The value of an operand: a register, or a decimal literal; 0 for what   *)
(* is neither (a function, an errno name).                                 *)
Val(regs, x) ==
    IF SubSeq(x, 1, 1) = "%" THEN regs[x]
    ELSE IF \E n \in Literals : ToString(n) = x
         THEN CHOOSE n \in Literals : ToString(n) = x
         ELSE 0

(* The index of the instruction after a label.                             *)
Target(code, label) ==
    (CHOOSE k \in DOMAIN code : code[k].op = "label" /\ code[k].a = StripPercent(label)) + 1

WorkField(work, k) ==
    CASE k = "0" -> work.data [] k = "1" -> work.lower [] k = "2" -> work.upper
      [] k = "3" -> work.idx [] k = "4" -> work.full_task

Event(by, instr, regs) ==
    [by |-> by, fn |-> instr.a, ops |-> instr.args,
     args |-> [i \in 1..Len(instr.args) |-> Val(regs, instr.args[i])]]

SetReg(r, dst, v) == [r EXCEPT !.regs = (dst :> v) @@ @, !.pc = @ + 1]

Called(r, instr) ==
    [r EXCEPT !.trace = Append(@, Event(r.fn, instr, r.regs)), !.pc = @ + 1]

RunId == 7

Trap == -1

(* A call of the emitted code, by its callee.  The runtime and the vector  *)
(* and builder templates are outside the generator: size returns the       *)
(* length of its vector, malloc a fresh address, pl_start_loop records the *)
(* loop it is to run and returns, and every other callee returns.          *)
ExecCall(r, instr) ==
    CASE EndsWith(instr.a, ".size") -> SetReg(r, instr.dst, Val(r.regs, instr.args[1]))
      [] instr.a = "@get_runid" -> SetReg(r, instr.dst, RunId)
      [] instr.a = "@malloc" ->
            SetReg([r EXCEPT !.heap = Append(@, <<>>)], instr.dst, Len(r.heap) + 1)
      [] instr.a = "@weld_rt_set_errno" -> [Called(r, instr) EXCEPT !.errno = instr.args[2]]
      [] instr.a = "@weld_rt_get_errno" -> SetReg(r, instr.dst, r.errno)
      [] instr.a = "@get_result" -> SetReg(r, instr.dst, r.result)
      [] instr.a = "@execute" ->
            [Called(r, instr) EXCEPT !.fn = "", !.pc = 0,
                                     !.resume = [fn |-> r.fn, pc |-> r.pc + 1],
                                     !.rt.phase = "execute"]
      [] instr.a = "@pl_start_loop" ->
            [Called(r, instr) EXCEPT
                !.rt = [phase |-> "body",
                        next |-> Val(r.regs, instr.args[6]),
                        upper |-> Val(r.regs, instr.args[7]),
                        grain |-> Val(r.regs, instr.args[8]),
                        tasks |-> 0,
                        body |-> SubSeq(instr.args[4], 2, Len(instr.args[4])),
                        cont |-> SubSeq(instr.args[5], 2, Len(instr.args[5])),
                        body_data |-> Val(r.regs, instr.args[2]),
                        cont_data |-> Val(r.regs, instr.args[3])]]
      [] OTHER -> Called(r, instr)

(* insertvalue: the struct with its field idx replaced.                    *)
InsertValue(struct, idx, v) ==
    [k \in DOMAIN struct \cup {idx + 1} |-> IF k = idx + 1 THEN v ELSE struct[k]]

(* One instruction of the emitted code.  udiv0 is what a udiv by zero      *)
(* does: the division is undefined, the build may give it any value or end *)
(* the process.                                                            *)
Exec(r, instr, code, udiv0) ==
    CASE instr.op = "label" ->
            [r EXCEPT !.path = Append(@, instr.a), !.pc = @ + 1]
      [] instr.op = "br" ->
            [r EXCEPT !.path = Append(@, StripPercent(instr.a)),
                      !.pc = Target(code, instr.a)]
      [] instr.op = "br.cond" ->
            LET to == IF r.regs[instr.a] = 1 THEN instr.args[1] ELSE instr.args[2]
            IN  [r EXCEPT !.path = Append(@, StripPercent(to)), !.pc = Target(code, to)]
      [] instr.op = "sub" ->
            SetReg(r, instr.dst, (Val(r.regs, instr.a) - Val(r.regs, instr.args[1])) % Word)
      [] instr.op = "add" ->
            SetReg(r, instr.dst, (Val(r.regs, instr.a) + Val(r.regs, instr.args[1])) % Word)
      [] instr.op = "mul" ->
            SetReg(r, instr.dst, (Val(r.regs, instr.a) * Val(r.regs, instr.args[1])) % Word)
      [] instr.op = "udiv" ->
            IF Val(r.regs, instr.args[1]) # 0
            THEN SetReg(r, instr.dst, Val(r.regs, instr.a) \div Val(r.regs, instr.args[1]))
            ELSE IF udiv0 = Trap THEN [r EXCEPT !.fn = "", !.pc = 0, !.rt.phase = "dead"]
            ELSE SetReg(r, instr.dst, udiv0)
      [] instr.op = "icmp ult" ->
            SetReg(r, instr.dst,
                   IF Val(r.regs, instr.a) < Val(r.regs, instr.args[1]) THEN 1 ELSE 0)
      [] instr.op = "icmp ule" ->
            SetReg(r, instr.dst,
                   IF Val(r.regs, instr.a) <= Val(r.regs, instr.args[1]) THEN 1 ELSE 0)
      [] instr.op = "trunc" -> SetReg(r, instr.dst, r.regs[instr.a] % 2)
      [] instr.op = "insertvalue" ->
            [r EXCEPT !.sregs = (instr.dst :>
                                    InsertValue(IF instr.a = "undef" THEN <<>>
                                                ELSE r.sregs[instr.a],
                                                Val(r.regs, instr.args[2]),
                                                r.regs[instr.args[1]])) @@ @,
                      !.pc = @ + 1]
      [] instr.op = "store.args" ->
            [r EXCEPT !.heap[r.regs[instr.a]] =
                          IF instr.args[1] = "undef" THEN <<>> ELSE r.sregs[instr.args[1]],
                      !.pc = @ + 1]
      [] instr.op = "load.args" ->
            [r EXCEPT !.sregs = (instr.dst :> r.heap[WorkField(r.work, instr.args[1])]) @@ @,
                      !.pc = @ + 1]
      [] instr.op = "extractvalue" ->
            SetReg(r, instr.dst, r.sregs[instr.a][Val(r.regs, instr.args[1]) + 1])
      [] instr.op = "load.field" ->
            SetReg(r, instr.dst, WorkField(r.work, instr.args[1]))
      [] instr.op \in {"inttoptr", "ptrtoint", "bitcast"} ->
            SetReg(r, instr.dst, r.regs[instr.a])
      [] instr.op = "load.struct" ->
            [r EXCEPT !.sregs = (instr.dst :> r.heap[r.regs[instr.a]]) @@ @, !.pc = @ + 1]
      [] instr.op = "call" -> [ExecCall(r, instr) EXCEPT !.calls = Append(@, instr.a)]
      [] instr.op = "ret" ->
            [r EXCEPT !.fn = "", !.pc = 0,
                      !.ret = IF instr.a = "" THEN 0 ELSE r.regs[instr.a]]

(***************************************************************************)
(* The runtime behind pl_start_loop: work items of the body trampoline     *)
(* over consecutive sub-ranges of [lower, upper), one at a time, and the   *)
(* continuation trampoline once they are over.  The runtime chooses the    *)
(* sub-ranges and the full-task flag of each work item.                    *)
(***************************************************************************)
Min(x, y) == IF x < y THEN x ELSE y

Enter(r, fn, work) ==
    [r EXCEPT !.fn = fn, !.pc = 1, !.regs = ("%cur.work" :> 0), !.sregs = <<>>,
              !.path = Append(@, "@" \o fn), !.work = work, !.from = Len(r.trace)]

Chunks(rt) ==
    IF rt.tasks + 1 >= MaxTasks THEN {rt.upper}
    ELSE {Min(rt.next + rt.grain, rt.upper), rt.upper}

(***************************************************************************)
(* The values a wrapper is entered with: a length for each vector, a       *)
(* word for each of start, end and stride that an iterator names, and a    *)
(* handle for each builder.                                                *)
(***************************************************************************)
Lens == {0, 1, 5, GrainSize, GrainSize + 1}
OtherLens == {0, 5, GrainSize + 1}
Starts == {0, 1}
Ends == {0, 3, 6}
Strides == {0, 1, 2}
UndefWords == {Trap, 0, 1, GrainSize + 1}

LoopOf(sir) == sir.funcs[0].blocks[1].terminator.pf

Names(pf, field) == {pf.data[k][field] : k \in DOMAIN pf.data}

Handle(symbol) == 10 + NameRank(symbol.name)

Input(sir, lv, lw, start, end, stride) ==
    LET params == get_combined_params(sir, LoopOf(sir))
        value(p) == CASE p = sym_v -> lv [] p = sym_w -> lw [] p = sym_start -> start
                      [] p = sym_end -> end [] p = sym_stride -> stride
                      [] OTHER -> Handle(p)
    IN  [n \in {llvm_symbol(p) : p \in DOMAIN params} \cup {"%cur.work"} |->
            IF n = "%cur.work" THEN 0
            ELSE value(CHOOSE p \in DOMAIN params : llvm_symbol(p) = n)]

Inputs(sir) ==
    LET pf == LoopOf(sir)
    IN  {Input(sir, lv, lw, start, end, stride) :
            lv \in Lens,
            lw \in IF sym_w \in Names(pf, "data") THEN OtherLens ELSE {0},
            start \in IF sym_start \in Names(pf, "start") THEN Starts ELSE {0},
            end \in IF pf.data[1].has_start THEN Ends ELSE {0},
            stride \in IF sym_stride \in Names(pf, "stride") THEN Strides ELSE {1}}

Lowered(sir, ord) == add_function_on_pointers(NewGenerator, "run", sir, ord)

WrapperName(sir) == "f" \o ToString(LoopOf(sir).body) \o "_wrapper"

InitRun ==
    /\ hist = <<>>
    /\ call = NoCall
    /\ program \in {LoopProgram(pf) : pf \in Loops}
    /\ hash_order \in HashOrders
    /\ Lowered(program, hash_order).ok
    /\ gen = Lowered(program, hash_order).g
    /\ \E input \in Inputs(program) :
          run = [NoRun EXCEPT !.fn = WrapperName(program), !.pc = 1,
                              !.regs = input, !.input = input]

(* The next instruction of the function being executed.                    *)
ExecInstr ==
    /\ run.fn # ""
    /\ LET code == Def(gen, run.fn).code
           instr == code[run.pc]
       IN  \E udiv0 \in IF instr.op = "udiv" /\ Val(run.regs, instr.args[1]) = 0
                         THEN UndefWords ELSE {0} :
              run' = Exec(run, instr, code, udiv0)
    /\ UNCHANGED <<gen, hist, program, hash_order, call>>

(* The runtime runs the next work item of the loop body.                   *)
StartBodyTask ==
    /\ run.fn = ""
    /\ run.rt.phase = "body"
    /\ run.rt.next < run.rt.upper
    /\ \E hi \in Chunks(run.rt), full_task \in {0, 1} :
          run' = [Enter(run, run.rt.body,
                        [data |-> run.rt.body_data, lower |-> run.rt.next, upper |-> hi,
                         idx |-> 0, full_task |-> full_task])
                  EXCEPT !.rt.next = hi, !.rt.tasks = @ + 1]
    /\ UNCHANGED <<gen, hist, program, hash_order, call>>

(* The body phase is over: the runtime runs the continuation.              *)
StartCont ==
    /\ run.fn = ""
    /\ run.rt.phase = "body"
    /\ run.rt.next >= run.rt.upper
    /\ \E full_task \in {0, 1} :
          run' = [Enter(run, run.rt.cont,
                        [data |-> run.rt.cont_data, lower |-> 0, upper |-> 0,
                         idx |-> 0, full_task |-> full_task])
                  EXCEPT !.rt.phase = "cont"]
    /\ UNCHANGED <<gen, hist, program, hash_order, call>>

NextRun == ExecInstr \/ StartBodyTask \/ StartCont

SpecRun == InitRun /\ [][NextRun]_vars

(***************************************************************************)
(* The public entry function, executed an instruction at a time.  It is    *)
(* called with the address of an %input_arg_t {args, nworkers, memlimit},  *)
(* args the address of the struct of the top-level parameters.  The        *)
(* runtime is outside the generator: while @execute runs the program, a    *)
(* function of the program may set the errno of the run (a failed bounds   *)
(* check, a Crash) or its result (ProgramReturn); then @execute returns.   *)
(***************************************************************************)
TopLens == {1, 5}
Workers == {1, 4}
ResultAddrs == {20, 21}
Errnos == {"BadIteratorLength", "Unknown"}

EntryName == "run"

InitEntry ==
    /\ hist = <<>>
    /\ call = NoCall
    /\ program \in Programs
    /\ hash_order \in HashOrders
    /\ Lowered(program, hash_order).ok
    /\ gen = Lowered(program, hash_order).g
    /\ \E nworkers \in Workers, lens \in [DOMAIN program.top_params -> TopLens] :
          run = [NoRun EXCEPT !.fn = EntryName, !.pc = 1,
                              !.regs = ("%r.input" :> 1),
                              !.heap = <<<<2, nworkers, 0>>, lens>>,
                              !.input = lens]

(* A function of the running program calls @weld_rt_set_errno.             *)
RtSetErrno ==
    /\ run.fn = ""
    /\ run.rt.phase = "execute"
    /\ \E e \in Errnos : run' = [run EXCEPT !.errno = e]
    /\ UNCHANGED <<gen, hist, program, hash_order, call>>

(* A function of the running program calls @set_result.                    *)
RtSetResult ==
    /\ run.fn = ""
    /\ run.rt.phase = "execute"
    /\ \E a \in ResultAddrs : run' = [run EXCEPT !.result = a]
    /\ UNCHANGED <<gen, hist, program, hash_order, call>>

(* @execute returns to its caller.                                         *)
ExecuteReturns ==
    /\ run.fn = ""
    /\ run.rt.phase = "execute"
    /\ run' = [run EXCEPT !.fn = run.resume.fn, !.pc = run.resume.pc,
                          !.rt.phase = "executed"]
    /\ UNCHANGED <<gen, hist, program, hash_order, call>>

NextEntry == ExecInstr \/ RtSetErrno \/ RtSetResult \/ ExecuteReturns

SpecEntry == InitEntry /\ [][NextEntry]_vars

(***************************************************************************)
(* The lowering of statements: gen_statement applied to the statements of  *)
(* one function, one after the other, on one generator and one             *)
(* FunctionContext.  A failing statement ends the lowering of the          *)
(* function.  call is the last statement lowered: whether it returned Ok,  *)
(* the context it left, and the lengths of the code section and of the     *)
(* prelude before it.                                                      *)
(***************************************************************************)
MaxStatements == 2

KindRank(s) ==
    CASE s = "Bool" -> 1 [] s = "I8" -> 2 [] s = "I32" -> 3 [] s = "I64" -> 4
      [] s = "F32" -> 5 [] s = "F64" -> 6

(* The function the statements belong to: an operand x and an output y of  *)
(* every scalar type, two vectors, two GroupMerger builders over different *)
(* (K, V) and a place for the result of each.                              *)
OperandSym(s) == Symbol("x", KindRank(s))
OutputSym(s) == Symbol("y", KindRank(s))
GroupSym(k) == Symbol("b", k)
DictSym(k) == Symbol("e", k)
GroupValue(k) == IF k = 1 THEN Scalar("I32") ELSE Scalar("I64")
SimdSym(s) == Symbol("v", KindRank(s))
SimdOut(s) == Symbol("w", KindRank(s))
SimdKinds == {"I32", "F32", "F64"}

StatementFunction ==
    SirFunction(0, <<>>,
        [sym \in {OperandSym(s) : s \in ScalarKind} |->
            Scalar(CHOOSE s \in ScalarKind : OperandSym(s) = sym)]
        @@ [sym \in {OutputSym(s) : s \in ScalarKind} |->
            Scalar(CHOOSE s \in ScalarKind : OutputSym(s) = sym)]
        @@ (sym_v :> Vector(Scalar("I32"))) @@ (sym_w :> Vector(Scalar("I32")))
        @@ [sym \in {SimdSym(s) : s \in SimdKinds} \cup {SimdOut(s) : s \in SimdKinds} |->
            Simd(CHOOSE s \in SimdKinds : sym.id = KindRank(s))]
        @@ [sym \in {GroupSym(k) : k \in 1..2} |->
            GroupMerger(Scalar("I32"), GroupValue(sym.id))]
        @@ [sym \in {DictSym(k) : k \in 1..2} |->
            Dict(Scalar("I32"), Vector(GroupValue(sym.id)))],
        <<>>)

Casts ==
    {Cast(OutputSym(new), Scalar(new), OperandSym(old)) : old, new \in ScalarKind}
    \cup {Cast(OutputSym("I32"), Scalar("I32"), sym_v),
          Cast(sym_w, Vector(Scalar("I32")), OperandSym("I32")),
          Cast(OutputSym("I32"), Scalar("I32"), sym_i)}

Comparisons == {"Equal", "NotEqual", "LessThan", "LessThanOrEqual", "GreaterThan",
                "GreaterThanOrEqual"}

BinOps ==
    {BinOp(OutputSym(s), op, Scalar(s), OperandSym(s), OperandSym(s)) :
        op \in {"Add", "LogicalAnd", "Xor"}, s \in ScalarKind}
    \cup {BinOp(OutputSym("Bool"), op, Vector(Scalar("I32")), sym_v, sym_w) :
             op \in Comparisons \cup {"Add"}}
    \cup {BinOp(OutputSym("I32"), "Add", Struct(<<Scalar("I32")>>), sym_v, sym_w)}

UnaryOps ==
    {UnaryOp(op, OutputSym(s), OperandSym(s)) :
        op \in {"Log", "Sqrt"}, s \in {"I32", "F32", "F64"}}

CUDFs ==
    {CUDF(OutputSym("I32"), name, <<OperandSym("I32")>>) : name \in {"ext_f", "ext_g"}}

Results == {Result(DictSym(k), GroupSym(k)) : k \in 1..2}

Negates ==
    {Negate(OutputSym(s), OperandSym(s)) : s \in {"Bool", "I32", "F64"}}
    \cup {Negate(SimdOut(s), SimdSym(s)) : s \in SimdKinds}

Statements == Casts \cup BinOps \cup UnaryOps \cup CUDFs \cup Results \cup Negates

StatementProgram ==
    [funcs |-> (0 :> StatementFunction), top_params |-> <<>>]

NoStatement ==
    [op |-> "", statement |-> UnaryOp("", NoSym, NoSym), ok |-> TRUE,
     ctx |-> NewFunctionContext, before |-> 0, prelude_before |-> 0, n |-> 0]

InitStatements ==
    /\ gen = NewGenerator
    /\ hist = <<>>
    /\ program = StatementProgram
    /\ hash_order = "asc"
    /\ call = NoStatement
    /\ run = NoRun

GenStatement(statement) ==
    /\ call.n < MaxStatements
    /\ call.ok
    /\ LET r == Run(St(gen, call.ctx, TRUE, NoEnv),
                    gen_statement(statement, program.funcs[0]), program, hash_order)
       IN  /\ gen' = r.g
           /\ call' = [op |-> "gen_statement", statement |-> statement, ok |-> r.ok,
                       ctx |-> r.ctx, before |-> Len(call.ctx.code),
                       prelude_before |-> Len(gen.prelude_code), n |-> call.n + 1]
    /\ UNCHANGED <<hist, program, hash_order, run>>

NextStatements == \E statement \in Statements : GenStatement(statement)

SpecStatements == InitStatements /\ [][NextStatements]_vars

(***************************************************************************)
(* Properties of the type registry.                                        *)
(***************************************************************************)
CountersAfter(j) == IF j = Len(hist) THEN Counters(gen) ELSE hist[j + 1].before

FirstRequest(ty) == CHOOSE i \in DOMAIN hist :
                        /\ hist[i].ty = ty /\ hist[i].ok
                        /\ \A h \in DOMAIN hist : hist[h].ty = ty /\ hist[h].ok => i <= h

NewStruct(j) == hist[j].ty.k = "Struct" /\ hist[j].ok /\ hist[j].prior = ""

DistinctBefore(j) == Cardinality({hist[i].ty : i \in 1..(j - 1)})

Canon(ty) ==
    CASE ty.k \in {"Merger", "DictMerger", "VecMerger"} -> [ty EXCEPT !.op = ""]
      [] ty.k = "GroupMerger" -> Appender(Struct(ty.a))
      [] OTHER -> ty

FnName(fid) == "f" \o ToString(fid)

DefsNamed(name) == {k \in DOMAIN gen.body_code : gen.body_code[k].name = name}

(* C3: lowering a function id again appends nothing.  No function id ever  *)
(* has more than one definition `define void @f<id>(` in the body buffer;  *)
(* an add_function call for an id that is already in visited returns Ok    *)
(* and appends nothing to the body buffer, whatever its containing_loop;   *)
(* and after a call that inserted its id and returned Ok the buffer holds  *)
(* exactly one definition of that id.                                      *)
C3_IdempotentAddFunction ==
    /\ \A fid \in DOMAIN program.funcs : Cardinality(DefsNamed(FnName(fid))) <= 1
    /\ (call.op = "add_function" /\ ~call.inserted) =>
           (call.ok /\ Len(gen.body_code) = call.before)
    /\ (call.op = "add_function" /\ call.inserted /\ call.ok) =>
           Cardinality(DefsNamed(FnName(call.fid))) = 1

(* A second add_function call for a loop body that is already defined,     *)
(* this time with a containing loop.                                       *)
C3_Witness ==
    /\ call.op = "add_function" /\ call.n = 2 /\ ~call.inserted /\ call.some
    /\ Cardinality(DefsNamed(FnName(call.fid))) = 1
    /\ DefsNamed(FnName(call.fid) \o "_wrapper") = {}

(* The parameters of a function in ascending order of their symbols, as    *)
(* the names the emitted code uses.                                        *)
IsAscending(syms) == \A i, j \in DOMAIN syms : i < j => SymLess(syms[i], syms[j])

Ascending(params) ==
    LET syms == CHOOSE q \in {params_sorted(DOMAIN params)} : IsAscending(q)
    IN  [i \in DOMAIN syms |-> llvm_symbol(syms[i])]

WithSuffix(names, suffix) == [i \in DOMAIN names |-> names[i] \o suffix]

(* The slot an operand of a call was loaded from, or the operand itself.   *)
Resolved(def, x) ==
    IF \E j \in DOMAIN def.code : def.code[j].op = "load" /\ def.code[j].dst = x
    THEN def.code[CHOOSE j \in DOMAIN def.code :
                      def.code[j].op = "load" /\ def.code[j].dst = x].a
    ELSE x

ResolvedArgs(def, instr) == [i \in DOMAIN instr.args |-> Resolved(def, instr.args[i])]

(* The <<symbol, index>> pairs of the insertvalue chain that ends in ref.   *)
RECURSIVE ChainOf(_, _)
ChainOf(def, ref) ==
    IF ref = "undef" THEN <<>>
    ELSE LET ins == CHOOSE j \in DOMAIN def.code :
                        def.code[j].op = "insertvalue" /\ def.code[j].dst = ref
         IN  Append(ChainOf(def, def.code[ins].a),
                    <<def.code[ins].args[1], def.code[ins].args[2]>>)

(* The chain stored into a malloc'ed argument struct.                      *)
Stashed(def, storage) ==
    LET st == CHOOSE j \in DOMAIN def.code :
                  def.code[j].op = "store.args" /\ def.code[j].a = storage
    IN  ChainOf(def, def.code[st].args[1])

Indexed(names) == [i \in DOMAIN names |-> <<names[i], ToString(i - 1)>>]

(* The extractvalues of a trampoline against the struct it unloads.        *)
Unloaded(def) ==
    LET ld == {j \in DOMAIN def.code : def.code[j].op = "load.args"}
    IN  {<<def.code[j].dst, def.code[j].args[1]>> :
            j \in {i \in DOMAIN def.code :
                      def.code[i].op = "extractvalue" /\
                      \E l \in ld : def.code[l].dst = def.code[i].a}}

LoopsOf(sir) == {t.pf : t \in {u \in Terminators(sir) : u.t = "ParallelFor"}}

DefineInOrder(def) ==
    /\ \A fid \in DOMAIN program.funcs :
          LET asc == WithSuffix(Ascending(program.funcs[fid].params), ".in")
                        \o <<"%cur.work">>
          IN  def.name = FnName(fid) =>
                 def.params \in {asc, asc \o <<"%lower.idx", "%upper.idx">>}
    /\ \A pf \in LoopsOf(program) :
          def.name = FnName(pf.body) \o "_wrapper" =>
             def.params = Ascending(get_combined_params(program, pf)) \o <<"%cur.work">>

CallInOrder(def, instr) ==
    /\ \A fid \in DOMAIN program.funcs :
          LET asc == Ascending(program.funcs[fid].params) \o <<"%cur.work">>
              args == ResolvedArgs(def, instr)
          IN  instr.a = "@" \o FnName(fid) =>
                 /\ Len(args) \in {Len(asc), Len(asc) + 2}
                 /\ SubSeq(args, 1, Len(asc)) = asc
    /\ \A pf \in LoopsOf(program) :
          instr.a = "@" \o FnName(pf.body) \o "_wrapper" =>
             ResolvedArgs(def, instr) =
                Ascending(get_combined_params(program, pf)) \o <<"%cur.work">>
    /\ \A body, cont \in DOMAIN program.funcs :
          (instr.a = "@pl_start_loop"
             /\ instr.args[4] = "@" \o FnName(body) \o "_par"
             /\ instr.args[5] = "@" \o FnName(cont) \o "_par") =>
             /\ Stashed(def, instr.args[2]) = Indexed(Ascending(program.funcs[body].params))
             /\ Stashed(def, instr.args[3]) = Indexed(Ascending(program.funcs[cont].params))
    /\ instr.a = "@execute" =>
          Stashed(def, instr.args[2]) = Indexed(Ascending(program.funcs[0].params))

UnloadInOrder(def) ==
    \A fid \in DOMAIN program.funcs :
       def.name = FnName(fid) \o "_par" =>
          LET asc == Indexed(Ascending(program.funcs[fid].params))
          IN  Unloaded(def) = {asc[i] : i \in DOMAIN asc}

(* C4: canonical argument order.  In the body buffer every define of a     *)
(* function or wrapper lists the parameters in ascending order of their    *)
(* symbols; every call of a function or wrapper passes, at each position,  *)
(* the symbol the define has at that position; the structs stashed for     *)
(* pl_start_loop and execute hold the i-th parameter in ascending order at *)
(* index i, and a trampoline extracts it from index i.  This holds for     *)
(* every iteration order of the parameter maps.                            *)
C4_CanonicalArgumentOrder ==
    \A k \in DOMAIN gen.body_code :
       LET def == gen.body_code[k]
       IN  /\ DefineInOrder(def)
           /\ UnloadInOrder(def)
           /\ \A j \in DOMAIN def.code :
                 def.code[j].op = "call" => CallInOrder(def, def.code[j])

(* A whole module lowered with the parameter maps iterated in descending   *)
(* order: the entry function calls the loop wrapper, the wrapper calls     *)
(* body and continuation and stashes both structs.                         *)
C4_Witness ==
    /\ call.op = "add_function_on_pointers" /\ call.ok /\ hash_order = "desc"
    /\ call.n = 1
    /\ \E k \in DefsNamed("f1_wrapper") :
          \E j \in DOMAIN gen.body_code[k].code :
             gen.body_code[k].code[j].a = "@pl_start_loop"
    /\ \E k \in DefsNamed("f0") :
          \E j \in DOMAIN gen.body_code[k].code :
             gen.body_code[k].code[j].a = "@f1_wrapper"
    /\ DefsNamed("f1_par") # {} /\ DefsNamed("f2_par") # {} /\ DefsNamed("f0_par") # {}

(***************************************************************************)
(* Properties of the execution of a lowered loop.                          *)
(***************************************************************************)
Code1 == Def(gen, run.fn).code

BodyFn == "@f" \o ToString(LoopOf(program).body)
ContFn == "@f" \o ToString(LoopOf(program).cont)
BodyPar == "f" \o ToString(LoopOf(program).body) \o "_par"
ContPar == "f" \o ToString(LoopOf(program).cont) \o "_par"

InWrapper == run.fn = WrapperName(program)

Reached(label) == \E k \in DOMAIN run.path : run.path[k] = label

Fns(events) == [k \in DOMAIN events |-> events[k].fn]

(* The values the wrapper was entered with for a parameter map, in         *)
(* ascending order of the symbols, and the work descriptor pointer.        *)
ArgValues(params) ==
    LET syms == params_sorted(DOMAIN params)
    IN  [k \in 1..Len(syms) |-> run.input[llvm_symbol(syms[k])]] \o <<0>>

(* The wrapper is at the conditional branch of a bounds check.             *)
AtBoundsBranch ==
    /\ InWrapper
    /\ Code1[run.pc].op = "br.cond"
    /\ Code1[run.pc].args[2] = "%fn.boundcheckfailed"

(* The iterator whose bounds check the wrapper is at.                      *)
CheckedIter ==
    LoopOf(program).data[
        1 + Cardinality({k \in 1..(run.pc - 1) :
                            /\ Code1[k].op = "br.cond"
                            /\ Code1[k].args[2] = "%fn.boundcheckfailed"})]

(* num_iters as the wrapper computed it: the operand of the sub of a       *)
(* bounds check.                                                           *)
NumIters ==
    LET code == Def(gen, WrapperName(program)).code
    IN  run.regs[code[CHOOSE k \in DOMAIN code :
                        code[k].op = "sub" /\ code[k].args = <<"1">>].a]

(* The effective start and stride of the checked iterator and the length   *)
(* of its vector; the start of a fringe iterator is the one the wrapper    *)
(* captured.                                                               *)
EffStart ==
    IF CheckedIter.has_start THEN run.input[llvm_symbol(CheckedIter.start)]
    ELSE IF CheckedIter.kind = "FringeIter" THEN Val(run.regs, Code1[run.pc - 2].args[1])
    ELSE 0

EffStride ==
    IF CheckedIter.has_start THEN run.input[llvm_symbol(CheckedIter.stride)] ELSE 1

EffSize == run.input[llvm_symbol(CheckedIter.data)]

(* C5: at the branch of every bounds check, the emitted check passes       *)
(* exactly when start + (num_iters - 1) * stride < size holds over the     *)
(* integers, for every num_iters the wrapper computes, 0 included.         *)
C5_BoundsCheckEquivalence ==
    AtBoundsBranch =>
        ((run.regs[Code1[run.pc].a] = 1)
            <=> (EffStart + (NumIters - 1) * EffStride < EffSize))

AtRetPassed ==
    /\ InWrapper
    /\ Code1[run.pc].op = "ret"
    /\ Reached("fn.boundcheckpassed")
    /\ ~Reached("fn.boundcheckfailed")

TakesSerial == LoopOf(program).innermost /\ NumIters <= GrainSize

(* C7: at the ret of a wrapper whose bounds checks passed, the wrapper has *)
(* either called the body with its arguments and the range [0, num_iters)  *)
(* and then the continuation with its arguments, and nothing else, which   *)
(* it does exactly when the loop is innermost and num_iters <= 4096; or it *)
(* has called pl_start_loop once, and nothing else, with the two           *)
(* trampolines, the range [0, num_iters) and the grain 4096 of an          *)
(* innermost loop or 1 of another.                                         *)
C7_DispatchExactlyOne ==
    AtRetPassed =>
        IF TakesSerial
        THEN /\ Fns(run.trace) = <<BodyFn, ContFn>>
             /\ run.trace[1].args =
                    ArgValues(program.funcs[LoopOf(program).body].params) \o <<0, NumIters>>
             /\ run.trace[2].args = ArgValues(program.funcs[LoopOf(program).cont].params)
             /\ run.rt.phase = "none"
        ELSE /\ Fns(run.trace) = <<"@pl_start_loop">>
             /\ run.trace[1].ops[4] = "@" \o BodyPar
             /\ run.trace[1].ops[5] = "@" \o ContPar
             /\ run.trace[1].args[6] = 0
             /\ run.trace[1].args[7] = NumIters
             /\ run.trace[1].args[8] = (IF LoopOf(program).innermost THEN GrainSize ELSE 1)
             /\ run.rt.phase = "body"

(* A loop that is not innermost, with few iterations, went to the runtime. *)
C7_Witness ==
    /\ AtRetPassed
    /\ ~LoopOf(program).innermost
    /\ NumIters \in 1..GrainSize
    /\ Fns(run.trace) = <<"@pl_start_loop">>

(* The calls of the body and of the continuation, as indices of trace.     *)
BodyCalls == {k \in DOMAIN run.trace : run.trace[k].fn = BodyFn}
ContCalls == {k \in DOMAIN run.trace : run.trace[k].fn = ContFn}

(* The range a call of the body was given: its last two arguments.         *)
Lower(k) == run.trace[k].args[Len(run.trace[k].args) - 1]
Upper(k) == run.trace[k].args[Len(run.trace[k].args)]

(* The range the loop was dispatched with: the one given to pl_start_loop, *)
(* or the one of the serial call.                                          *)
Dispatched ==
    IF \E k \in DOMAIN run.trace : run.trace[k].fn = "@pl_start_loop"
    THEN run.trace[CHOOSE k \in DOMAIN run.trace : run.trace[k].fn = "@pl_start_loop"].args[7]
    ELSE NumIters

(* The calls of the body, in the order they were made, cover [0, n) by     *)
(* consecutive ranges.                                                     *)
Covers(n) ==
    IF BodyCalls = {} THEN n = 0
    ELSE /\ \E k \in BodyCalls : Lower(k) = 0 /\ \A j \in BodyCalls : k <= j
         /\ \E k \in BodyCalls : Upper(k) = n /\ \A j \in BodyCalls : j <= k
         /\ \A k \in BodyCalls :
               \/ Upper(k) = n /\ \A j \in BodyCalls : j <= k
               \/ \E j \in BodyCalls :
                     /\ k < j /\ Lower(j) = Upper(k)
                     /\ \A i \in BodyCalls : ~(k < i /\ i < j)

Finished == run.fn = "" /\ run.rt.phase \in {"none", "cont"}

(* C8: the continuation is never called twice; no call of the body comes   *)
(* after a call of the continuation; when the continuation is called the   *)
(* calls of the body made before it cover [0, num_iters); and when the     *)
(* execution of a loop whose bounds checks passed is over, the             *)
(* continuation has been called.                                           *)
C8_ContinuationAfterBodies ==
    /\ Cardinality(ContCalls) <= 1
    /\ \A c \in ContCalls : \A b \in BodyCalls : b < c
    /\ ContCalls # {} => Covers(Dispatched)
    /\ (Finished /\ Reached("fn.boundcheckpassed") /\ ~Reached("fn.boundcheckfailed"))
           => Cardinality(ContCalls) = 1

(* The runtime ran the body as several work items before the continuation. *)
C8_Witness ==
    /\ Finished
    /\ Cardinality(ContCalls) = 1
    /\ Cardinality({k \in BodyCalls : run.trace[k].by = BodyPar}) >= 2

(* The calls the function being executed has made.                         *)
OwnCalls == SubSeq(run.trace, run.from + 1, Len(run.trace))

(* The Appender parameters of a parameter map, ascending.                  *)
Appenders(params) ==
    SelectSeq(params_sorted(DOMAIN params), LAMBDA s : params[s].k = "Appender")

IsNewPiece(e, symbol) ==
    /\ EndsWith(e.fn, ".newPiece")
    /\ e.ops[1] = llvm_symbol(symbol)
    /\ e.args[1] = run.input[llvm_symbol(symbol)]

(* The calls made are one newPiece for each Appender parameter and then    *)
(* one call of fn with the given arguments.                                *)
PiecesThenCall(params, fn, args) ==
    /\ Len(OwnCalls) = Len(Appenders(params)) + 1
    /\ \A k \in 1..Len(Appenders(params)) : IsNewPiece(OwnCalls[k], Appenders(params)[k])
    /\ OwnCalls[Len(OwnCalls)].fn = fn
    /\ OwnCalls[Len(OwnCalls)].args = args

OnlyCall(fn, args) ==
    /\ Len(OwnCalls) = 1
    /\ OwnCalls[1].fn = fn
    /\ OwnCalls[1].args = args

AtRetOf(fn) == run.fn = fn /\ Code1[run.pc].op = "ret"

(* C9: at the ret of the body trampoline, it has called newPiece on each   *)
(* Appender parameter and on nothing else if the full-task flag of its     *)
(* work descriptor is set, on nothing if it is not, and then the body      *)
(* once, with the stashed arguments and the range of fields 1 and 2.       *)
C9_BodyTrampoline ==
    AtRetOf(BodyPar) =>
        LET params == program.funcs[LoopOf(program).body].params
            args == ArgValues(params) \o <<run.work.lower, run.work.upper>>
        IN  IF run.work.full_task = 1
            THEN PiecesThenCall(params, BodyFn, args)
            ELSE OnlyCall(BodyFn, args)

(* A work item that is not the first, with the flag set.                   *)
C9_Witness ==
    /\ AtRetOf(BodyPar)
    /\ run.work.full_task = 1
    /\ run.work.lower > 0
    /\ Len(OwnCalls) = 2

(* C10, as stated: at the ret of the continuation trampoline, it has       *)
(* called newPiece on each Appender parameter whatever the full-task flag, *)
(* and then the continuation with its stashed arguments and no range.      *)
C10_ContUnconditionalPieces ==
    AtRetOf(ContPar) =>
        PiecesThenCall(program.funcs[LoopOf(program).cont].params, ContFn,
                       ArgValues(program.funcs[LoopOf(program).cont].params))

(* C10, amended: at the ret of the continuation trampoline, it has called  *)
(* newPiece on each Appender parameter if the full-task flag of its work   *)
(* descriptor is set and on nothing if it is not, and then the             *)
(* continuation with its stashed arguments and no range.                   *)
C10_ContConditionalPieces ==
    AtRetOf(ContPar) =>
        LET params == program.funcs[LoopOf(program).cont].params
        IN  IF run.work.full_task = 1
            THEN PiecesThenCall(params, ContFn, ArgValues(params))
            ELSE OnlyCall(ContFn, ArgValues(params))

(* The continuation trampoline made a piece for both of its appenders.     *)
C10_Witness ==
    /\ AtRetOf(ContPar)
    /\ run.work.full_task = 1
    /\ Len(OwnCalls) = 3

(***************************************************************************)
(* The Crash terminator.                                                   *)
(***************************************************************************)
IsCall(instr, fn) == instr.op = "call" /\ instr.a = fn

(* The definitions in the body buffer of the functions whose block ends    *)
(* in Crash.                                                               *)
CrashDefs ==
    {k \in DOMAIN gen.body_code :
        \E f \in DOMAIN program.funcs :
            /\ gen.body_code[k].name = FnName(f)
            /\ program.funcs[f].blocks[1].terminator = Crash}

(* C11: the lowered Crash terminator calls @get_runid, then                *)
(* @weld_rt_set_errno with that run id and errno Unknown, then             *)
(* @weld_abort_thread, in this order; the run id passed to                 *)
(* @weld_rt_set_errno is the value @get_runid returned.                    *)
C11_CrashSequence ==
    \A k \in CrashDefs :
        LET code == gen.body_code[k].code
        IN  /\ \E i, j, l \in DOMAIN code :
                  /\ i < j /\ j < l
                  /\ IsCall(code[i], "@get_runid")
                  /\ IsCall(code[j], "@weld_rt_set_errno")
                  /\ code[j].args = <<code[i].dst, "Unknown">>
                  /\ IsCall(code[l], "@weld_abort_thread")
            /\ \A j \in DOMAIN code :
                  IsCall(code[j], "@weld_rt_set_errno") =>
                      \E i \in 1..(j - 1) :
                          /\ IsCall(code[i], "@get_runid")
                          /\ code[i].dst = code[j].args[1]

(* What the emitted Crash is: one call of @weld_rt_set_errno whose run id  *)
(* is a fresh temporary that no instruction of the function defines, and   *)
(* no call of @get_runid or @weld_abort_thread.                            *)
C11_CrashAsEmitted ==
    \A k \in CrashDefs :
        LET code == gen.body_code[k].code
        IN  /\ \E j \in DOMAIN code :
                  /\ IsCall(code[j], "@weld_rt_set_errno")
                  /\ code[j].args[2] = "Unknown"
                  /\ \A i \in DOMAIN code : code[i].dst # code[j].args[1]
                  /\ j = Len(code) - 2
            /\ \A i \in DOMAIN code :
                  ~IsCall(code[i], "@get_runid") /\ ~IsCall(code[i], "@weld_abort_thread")

C11_Witness == CrashDefs # {}

(***************************************************************************)
(* Properties of the entry function.                                       *)
(***************************************************************************)
Positions(fn) == {k \in DOMAIN run.calls : run.calls[k] = fn}

Before(f, g) == \A i \in Positions(f), j \in Positions(g) : i < j

EntryReturned == run.fn = "" /\ run.rt.phase = "executed"

(* C12: the entry function calls @set_nworkers and @weld_rt_init before    *)
(* @execute(@f0_par, args); it calls @get_result, @get_runid and           *)
(* @weld_rt_get_errno only once @execute has returned; and the struct at   *)
(* the address it returns holds the result address, the run id and the     *)
(* errno the runtime held when @execute returned, so an errno set during   *)
(* the run is the one in the output descriptor.                            *)
C12_EntryCallOrder ==
    /\ Before("@set_nworkers", "@execute") /\ Before("@weld_rt_init", "@execute")
    /\ \A f \in {"@get_result", "@get_runid", "@weld_rt_get_errno"} :
          /\ Before("@execute", f)
          /\ Positions(f) # {} => run.rt.phase = "executed"
    /\ Positions("@execute") # {} =>
          /\ Positions("@set_nworkers") # {} /\ Positions("@weld_rt_init") # {}
          /\ \E k \in DOMAIN run.trace :
                /\ run.trace[k].fn = "@execute"
                /\ run.trace[k].ops[1] = "@f0_par"
                /\ run.heap[run.trace[k].args[2]] =
                       [i \in 1..Cardinality(DOMAIN program.funcs[0].params) |->
                           run.input[arg_pos(program,
                               params_sorted(DOMAIN program.funcs[0].params)[i]) + 1]]
    /\ EntryReturned =>
          /\ Cardinality(Positions("@execute")) = 1
          /\ \A f \in {"@get_result", "@get_runid", "@weld_rt_get_errno"} :
                Cardinality(Positions(f)) = 1
          /\ run.heap[run.ret] = <<run.result, RunId, run.errno>>

(* The entry function has returned after a run during which the errno      *)
(* and the result were set.                                                *)
C12_Witness ==
    /\ EntryReturned
    /\ run.errno = "BadIteratorLength"
    /\ run.result \in ResultAddrs
    /\ run.heap[run.ret][3] = "BadIteratorLength"

(***************************************************************************)
(* Properties of the lowering of statements.                               *)
(***************************************************************************)
Lowered1(kinds) == call.op = "gen_statement" /\ call.statement.kind \in kinds

(* The instructions the last statement added to the code section.          *)
Emitted == SubSeq(call.ctx.code, call.before + 1, Len(call.ctx.code))

(* The pieces the last statement added to the prelude.                     *)
Declared == SubSeq(gen.prelude_code, call.prelude_before + 1, Len(gen.prelude_code))

IsFloat(s) == s \in FloatKinds
IsInt(s) == s \in IntKinds

(* The rule table of Cast as stated.                                       *)
CastRule(old, new) ==
    CASE IsFloat(old) /\ new = "Bool" -> "fptoui"
      [] old = "Bool" /\ IsFloat(new) -> "uitofp"
      [] old = "F64" /\ new = "F32" -> "fptrunc"
      [] old = "F32" /\ new = "F64" -> "fpext"
      [] IsFloat(old) /\ IsInt(new) -> "fptosi"
      [] IsInt(old) /\ IsFloat(new) -> "sitofp"
      [] old = "Bool" /\ IsInt(new) -> "zext"
      [] IsInt(old) /\ IsInt(new) /\ KindRank(old) < KindRank(new) -> "sext"
      [] OTHER -> "trunc"

ScalarCast ==
    /\ Lowered1({"Cast"})
    /\ get_sym_ty(program.funcs[0], call.statement.child).ok
    /\ get_sym_ty(program.funcs[0], call.statement.child).ty.k = "Scalar"
    /\ call.statement.ty.k = "Scalar"
    /\ get_sym_ty(program.funcs[0], call.statement.child).ty # call.statement.ty

OldKind == get_sym_ty(program.funcs[0], call.statement.child).ty.s
NewKind == call.statement.ty.s

(* C15: for every pair of distinct scalar types (old, new), the opcode of  *)
(* the instruction a Cast emits is the one of the rule table: fptoui,      *)
(* uitofp, fptrunc, fpext, fptosi, sitofp, zext, sext for every widening   *)
(* integer cast (I8 to I32, I8 to I64, I32 to I64), trunc otherwise.       *)
C15_CastRuleTable ==
    ScalarCast =>
        /\ call.ok
        /\ Len(Emitted) = 3
        /\ Emitted[2].op = CastRule(OldKind, NewKind)

(* The same table with I8 to I32 left out of the widening casts: it is     *)
(* lowered to trunc.                                                       *)
C15_CastTableAsCoded ==
    ScalarCast =>
        /\ call.ok
        /\ Len(Emitted) = 3
        /\ Emitted[2].op = IF OldKind = "I8" /\ NewKind = "I32" THEN "trunc"
                           ELSE CastRule(OldKind, NewKind)

C15_Witness == ScalarCast /\ OldKind = "I8" /\ NewKind = "I64" /\ Emitted[2].op = "sext"

TypeOf(sym) == get_sym_ty(program.funcs[0], sym)

(* The last statement is a BinOp, UnaryOp or Cast whose (operator, type)   *)
(* pair its table does not support.                                        *)
UnsupportedPair ==
    LET s == call.statement
    IN  \/ /\ Lowered1({"BinOp"})
           /\ CASE s.ty.k \in {"Scalar", "Simd"} -> llvm_binop(s.op, s.ty) = ""
                [] s.ty.k = "Vector" -> llvm_binop_vector(s.op) = <<>>
                [] OTHER -> TRUE
        \/ /\ Lowered1({"UnaryOp"})
           /\ TypeOf(s.child).ok
           /\ \/ TypeOf(s.child).ty.k # "Scalar"
              \/ llvm_unaryop(s.op, TypeOf(s.child).ty.s) = ""
        \/ /\ Lowered1({"Cast"})
           /\ TypeOf(s.child).ok
           /\ TypeOf(s.child).ty.k # "Scalar" \/ s.ty.k # "Scalar"

(* C16: lowering a BinOp, UnaryOp or Cast whose (operator, type) pair its  *)
(* table does not support returns an error and emits no instruction for    *)
(* the statement.                                                          *)
C16_UnsupportedPairRejected ==
    UnsupportedPair => (~call.ok /\ Emitted = <<>>)

(* What the lowering does with such a statement: a BinOp or a UnaryOp      *)
(* returns an error after the loads of its operands have been added to the *)
(* code section; a Cast returns Ok and emits a cast instruction, the table *)
(* having a default arm.                                                   *)
C16_UnsupportedPairAsCoded ==
    UnsupportedPair =>
        IF Lowered1({"Cast"})
        THEN call.ok /\ Len(Emitted) = 3
             /\ Emitted[2].op \in {"trunc", "sext", "fptosi", "sitofp", "zext"}
        ELSE /\ ~call.ok
             /\ Emitted # <<>>
             /\ \A k \in DOMAIN Emitted : Emitted[k].op = "load"

PreludePieces(kind) == {k \in DOMAIN gen.prelude_code : gen.prelude_code[k].kind = kind}

Declarations(name) == {k \in PreludePieces("declare") : gen.prelude_code[k].name = name}

CallsOf(code, fn) == {k \in DOMAIN code : IsCall(code[k], fn)}

(* C18: the external function of a CUDF is declared in the prelude on its  *)
(* first use only.  After any number of CUDF statements the prelude holds  *)
(* at most one declare of a name, exactly one of the name of a statement   *)
(* that has been lowered, and a statement emits exactly one call.          *)
C18_CudfDeclaredOnce ==
    /\ \A name \in {s.symbol_name : s \in CUDFs} : Cardinality(Declarations(name)) <= 1
    /\ (Lowered1({"CUDF"}) /\ call.ok) =>
          /\ Cardinality(Declarations(call.statement.symbol_name)) = 1
          /\ Cardinality(CallsOf(Emitted, "@" \o call.statement.symbol_name)) = 1
          /\ Len(Emitted) = 1

(* What the lowering does: every CUDF statement adds a declare of its name *)
(* to the prelude, and emits one call.                                     *)
C18_CudfDeclaredAtEveryUse ==
    (Lowered1({"CUDF"}) /\ call.ok) =>
        /\ Len(Declared) = 1
        /\ Declared[1].kind = "declare"
        /\ Declared[1].name = call.statement.symbol_name
        /\ Declared[1].args = <<"i32", "i32">>
        /\ Cardinality(CallsOf(Emitted, "@" \o call.statement.symbol_name)) = 1
        /\ Len(Emitted) = 1

Helpers == PreludePieces("groupmerger")

(* The (K, V) a helper in the prelude was generated for, as the names of   *)
(* the key and value types.                                                *)
HelperTypes(k) == SubSeq(gen.prelude_code[k].args, 1, 2)

(* C19: the group-by helper is generated once per (K, V).  No two helpers  *)
(* in the prelude are for the same (K, V), helpers for different (K, V)    *)
(* have different names, and a Res on a GroupMerger calls the helper that  *)
(* was generated for its (K, V).                                           *)
C19_GroupHelperOncePerType ==
    /\ \A i, j \in Helpers :
          i # j => /\ HelperTypes(i) # HelperTypes(j)
                   /\ gen.prelude_code[i].name # gen.prelude_code[j].name
    /\ (Lowered1({"Res"}) /\ call.ok) =>
          \E k \in Helpers :
             /\ Emitted[2].a = "@" \o gen.prelude_code[k].name
             /\ HelperTypes(k) =
                   <<"i32", ScalarName(GroupValue(call.statement.builder.id).s)>>

(* What the lowering does: every Res on a GroupMerger adds a helper to the *)
(* prelude, under the one name func0, and calls @func0.                    *)
C19_GroupHelperAsCoded ==
    /\ \A k \in Helpers : gen.prelude_code[k].name = "func0"
    /\ (Lowered1({"Res"}) /\ call.ok) =>
          /\ \E k \in DOMAIN Declared :
                /\ Declared[k].kind = "groupmerger"
                /\ SubSeq(Declared[k].args, 1, 2) =
                      <<"i32", ScalarName(GroupValue(call.statement.builder.id).s)>>
          /\ Emitted[2].a = "@func0"

(***************************************************************************)
(* Iterators that lowering is to reject.                                   *)
(***************************************************************************)
HasLoop == program.funcs[0].blocks[1].terminator.t = "ParallelFor"

Rejected(iter) == iter.has_start /\ iter.kind \in {"SimdIter", "FringeIter"}

(* The last call lowered the body of the program's loop, which had not     *)
(* been visited, as the body of that loop.                                 *)
LoweredLoop ==
    /\ call.op = "add_function"
    /\ call.fid = LoopOf(program).body
    /\ call.some
    /\ call.inserted

(* C17: lowering a ParallelFor returns an error whenever an iterator of    *)
(* the loop, at any position of its iterator list, is a SIMD iterator with *)
(* explicit start/end/stride or a Fringe iterator with an explicit start:  *)
(* the call that lowers the loop fails and no wrapper of the loop is ever  *)
(* in the body buffer.                                                     *)
C17_BadIteratorRejected ==
    (HasLoop /\ \E k \in DOMAIN LoopOf(program).data : Rejected(LoopOf(program).data[k])) =>
        /\ DefsNamed(WrapperName(program)) = {}
        /\ LoweredLoop => ~call.ok

(* What the lowering rejects: a SIMD iterator with explicit start at any   *)
(* position, and a Fringe iterator with explicit start at the first        *)
(* position only.                                                          *)
C17_RejectedAsCoded ==
    (HasLoop /\ LoweredLoop) =>
        LET data == LoopOf(program).data
        IN  /\ (\E k \in DOMAIN data : data[k].has_start /\ data[k].kind = "SimdIter")
                  => ~call.ok
            /\ Rejected(data[1]) => ~call.ok
            /\ (Len(data) = 2 /\ data[1].kind = "ScalarIter" /\ data[2].kind = "FringeIter"
                   /\ data[2].has_start)
                  => (call.ok /\ DefsNamed(WrapperName(program)) # {})

(***************************************************************************)
(* Helper families in the prelude.                                         *)
(***************************************************************************)
Families == {k \in DOMAIN gen.prelude_code : gen.prelude_code[k].kind # "prelude"}

SameFamily(i, j) ==
    /\ gen.prelude_code[i].kind = gen.prelude_code[j].kind
    /\ gen.prelude_code[i].name = gen.prelude_code[j].name

(* C20: over any sequence of llvm_type requests on one generator, the      *)
(* helper family of each LLIR type name is in the prelude at most once:    *)
(* no two prelude pieces instantiate the same template under the same      *)
(* name.                                                                   *)
C20_HelpersInstantiatedOnce ==
    \A i, j \in Families : SameFamily(i, j) => i = j

(* What the registry does: the families of struct, vector, dictionary and  *)
(* merger names are instantiated once; the dictmerger family is            *)
(* instantiated once for every DictMerger builder kind, merge operator     *)
(* included, that has been named, all under the name of the Dict.          *)
C20_HelpersAsCoded ==
    /\ \A i, j \in Families :
          (SameFamily(i, j) /\ i # j) => gen.prelude_code[i].kind = "dictmerger"
    /\ \A name \in {gen.prelude_code[i].name : i \in Families} :
          Cardinality({i \in Families : gen.prelude_code[i].kind = "dictmerger"
                                         /\ gen.prelude_code[i].name = name})
            = Cardinality({bk \in DOMAIN gen.bld_names :
                              bk.k = "DictMerger" /\ gen.bld_names[bk] = name \o ".bld"})

(***************************************************************************)
(* Merging in parallel.  A program creates a builder, workers merge the    *)
(* values of the loop's iterations into it, and the program takes the      *)
(* result.  The function that merges is lowered from one Merge statement   *)
(* and is invoked once for every iteration, by the worker the runtime      *)
(* gave the iteration to; workers execute its emitted instructions one at  *)
(* a time, interleaved.  The templates under resources/ that initialise    *)
(* and reduce the cells are outside the generator.                         *)
(***************************************************************************)
F32 == Scalar("F32")

MergeKinds ==
    {Merger(ty, op) : ty \in {I32, F32}, op \in {"Add", "Multiply"}}
    \cup {VecMerger(I32, "Add")}

MergeValueType(bk) ==
    IF bk.k = "VecMerger" THEN Struct(<<I64, bk.a[1]>>) ELSE bk.a[1]

MergeArgType(bk) == IF bk.k = "VecMerger" THEN Vector(bk.a[1]) ELSE bk.a[1]

MergeBody(bk) ==
    SirFunction(1, (sym_b :> bk) @@ (sym_x :> MergeValueType(bk)), <<>>,
                <<BasicBlock(0, <<Merge(sym_b, sym_x)>>, EndFunction)>>)

MergeMain(bk, has_arg) ==
    SirFunction(0, (sym_a :> MergeArgType(bk)),
                (sym_b :> bk) @@ (sym_y :> MergeArgType(bk)),
                <<BasicBlock(0, <<NewBuilder(sym_b, IF has_arg THEN sym_a ELSE NoSym, bk),
                                  Result(sym_y, sym_b)>>, EndFunction)>>)

MergeProgram(bk, has_arg) ==
    [funcs |-> (0 :> MergeMain(bk, has_arg)) @@ (1 :> MergeBody(bk)),
     top_params |-> <<TypedParam(sym_a, MergeArgType(bk))>>]

LoweredMerge(sir, ord) ==
    add_function(add_function(NewGenerator, sir, 1, None, ord).g, sir, 0, None, ord)


(* Floating point of the emitted fadd and fmul: the exact result rounded   *)
(* to the nearest value with a significand of FloatBits bits, ties to the  *)
(* even significand.  Values are non-negative and far from overflow.       *)
FloatBits == 2

RECURSIVE Ulp(_)
Ulp(x) == IF x < 2 ^ FloatBits THEN 1 ELSE 2 * Ulp(x \div 2)

RoundF(x) ==
    LET u == Ulp(x)
        q == x \div u
        r == x % u
    IN  IF 2 * r < u THEN q * u
        ELSE IF 2 * r > u THEN (q + 1) * u
        ELSE (IF q % 2 = 0 THEN q ELSE q + 1) * u

(* An arithmetic instruction of LLVM on two values.                        *)
Apply(opcode, x, y) ==
    CASE opcode = "add" -> (x + y) % Word
      [] opcode = "mul" -> (x * y) % Word
      [] opcode = "fadd" -> RoundF(x + y)
      [] opcode = "fmul" -> RoundF(x * y)

(* The value of an identity literal of binop_identity.                     *)
Ident(literal) == IF literal \in {"0", "0.0"} THEN 0 ELSE 1

(* The values of the iterations, in the order of the loop, the initial     *)
(* value of a builder created with one, and the numbers of workers.        *)
VecLen == 2

Iterations(bk) ==
    CASE bk.k = "VecMerger" -> <<<<0, 5>>, <<1, 7>>, <<0, 2>>>>
      [] bk.a[1] = F32 -> <<2 ^ FloatBits, 1, 1>>
      [] OTHER -> <<Word - 1, 2, 3>>

InitialValue(bk) == IF bk.k = "VecMerger" THEN [i \in 1..VecLen |-> i] ELSE 3

WorkerCounts == {1, 2, 3}

Slots(bk) == IF bk.k = "VecMerger" THEN 0..(VecLen - 1) ELSE {"scalar", "vector"}

Idle == [pc |-> 0, regs |-> <<>>]

(* The builder of the program and the code of the function that merges.    *)
BuilderKind == program.funcs[1].params[sym_b]

MergeCode == Def(gen, "f1").code

MainCode == Def(gen, "f0").code

IsSlot(name) ==
    \E k \in DOMAIN Def(gen, "f1").alloca_code : Def(gen, "f1").alloca_code[k].dst = name

InitMerge ==
    /\ hist = <<>>
    /\ call = NoCall
    /\ hash_order = "asc"
    /\ \E bk \in MergeKinds, has_arg \in BOOLEAN : program = MergeProgram(bk, has_arg)
    /\ LoweredMerge(program, hash_order).ok
    /\ gen = LoweredMerge(program, hash_order).g
    /\ \E n \in WorkerCounts :
          run = [phase |-> "new", nworkers |-> n, cells |-> <<>>,
                 todo |-> Iterations(program.funcs[1].params[sym_b]),
                 workers |-> [w \in 0..(n - 1) |-> Idle],
                 touched |-> {}, result |-> 0]

(* The thread id the runtime returns to a worker: its own.                 *)
my_id_public(w) == w

(* NewBuilder.  init_merger.ll sets the scalar cell and every lane of the  *)
(* vector cell of every worker to the identity and then the scalar cell of *)
(* worker 0 to the initial element; the new of a VecMerger gives every     *)
(* worker a copy of the initial vector.                                    *)
InitialCells(n, code) ==
    LET k == CHOOSE k \in DOMAIN code :
                 code[k].op = "init_merger.ll" \/ EndsWith(code[k].a, ".vm.bld.new")
        init == code[k].args[1]
        first == IF SubSeq(init, 1, 1) = "%" THEN InitialValue(BuilderKind) ELSE Ident(init)
    IN  [c \in (0..(n - 1)) \X Slots(BuilderKind) |->
            CASE code[k].op = "call" -> InitialValue(BuilderKind)[c[2] + 1]
              [] c[2] = "vector" -> [lane \in 1..vec_size |-> Ident(code[k].args[2])]
              [] c[1] = 0 -> first
              [] OTHER -> Ident(code[k].args[2])]

RunNewBuilder ==
    /\ run.phase = "new"
    /\ run' = [run EXCEPT !.phase = "merge", !.cells = InitialCells(run.nworkers, MainCode)]
    /\ UNCHANGED <<gen, hist, program, hash_order, call>>

(* The runtime gives the next iteration to a worker that is not running    *)
(* one: the worker enters the merging function with the iteration's value. *)
TakeIteration(w) ==
    /\ run.phase = "merge"
    /\ run.todo # <<>>
    /\ run.workers[w].pc = 0
    /\ run' = [run EXCEPT !.todo = Tail(@),
                          !.workers[w] = [pc |-> 1,
                                          regs |-> ("%b.in" :> 0) @@ ("%cur.work" :> 0)
                                                   @@ ("%x.in" :> Head(run.todo))]]
    /\ UNCHANGED <<gen, hist, program, hash_order, call>>

(* One instruction of the merging function, executed by worker w.  A       *)
(* pointer into the builder is the pair of the thread id and the place it  *)
(* selects.                                                                *)
SetWorkerReg(r, w, dst, v) ==
    [r EXCEPT !.workers[w].regs = (dst :> v) @@ @, !.workers[w].pc = @ + 1]

Touch(r, w, ptr) == [r EXCEPT !.touched = @ \cup {[by |-> w, tid |-> ptr[1]]}]

MergeCall(r, w, instr) ==
    LET regs == r.workers[w].regs
    IN  CASE instr.a = "@my_id_public" -> my_id_public(w)
          [] EndsWith(instr.a, ".getPtrIndexed") -> <<Val(regs, instr.args[2]), "cell">>
          [] EndsWith(instr.a, ".scalarMergePtr") -> <<regs[instr.args[1]][1], "scalar">>
          [] EndsWith(instr.a, ".vectorMergePtr") -> <<regs[instr.args[1]][1], "vector">>
          [] EndsWith(instr.a, ".merge_ptr") ->
                <<Val(regs, instr.args[3]), regs[instr.args[2]]>>

MergeExec(r, w, instr) ==
    LET regs == r.workers[w].regs
    IN  CASE instr.op \in {"label", "br"} -> [r EXCEPT !.workers[w].pc = @ + 1]
          [] instr.op = "store" ->
                IF IsSlot(instr.a) THEN SetWorkerReg(r, w, instr.a, regs[instr.args[1]])
                ELSE [Touch(r, w, regs[instr.a]) EXCEPT
                         !.cells[regs[instr.a]] = regs[instr.args[1]],
                         !.workers[w].pc = @ + 1]
          [] instr.op = "load" ->
                IF IsSlot(instr.a) THEN SetWorkerReg(r, w, instr.dst, regs[instr.a])
                ELSE SetWorkerReg(Touch(r, w, regs[instr.a]), w, instr.dst,
                                  r.cells[regs[instr.a]])
          [] instr.op = "call" -> SetWorkerReg(r, w, instr.dst, MergeCall(r, w, instr))
          [] instr.op = "bitcast" -> SetWorkerReg(r, w, instr.dst, regs[instr.a])
          [] instr.op = "extractvalue" ->
                SetWorkerReg(r, w, instr.dst, regs[instr.a][Val(regs, instr.args[1]) + 1])
          [] instr.op = "ret" -> [r EXCEPT !.workers[w] = Idle]
          [] OTHER ->
                SetWorkerReg(r, w, instr.dst,
                             Apply(instr.op, regs[instr.a], regs[instr.args[1]]))

WorkerStep(w) ==
    /\ run.workers[w].pc # 0
    /\ run' = MergeExec(run, w, MergeCode[run.workers[w].pc])
    /\ UNCHANGED <<gen, hist, program, hash_order, call>>

(* Res, when every iteration has been merged.  The templates reduce the    *)
(* cells of workers 1, 2, .. into those of worker 0, the scalar cells and  *)
(* the vector cells each with the instruction gen_merge_op emitted for     *)
(* them, and then the lanes of the vector into the scalar with the third;  *)
(* a VecMerger is reduced into the vector of worker 0 element by element.  *)
Arith(code) ==
    LET ks == {k \in DOMAIN code : code[k].op \in {"add", "mul", "fadd", "fmul"}}
    IN  [n \in 1..Cardinality(ks) |->
            code[CHOOSE k \in ks : Cardinality({j \in ks : j <= k}) = n].op]

RECURSIVE Reduce(_, _, _, _)
Reduce(opcode, cells, slot, n) ==
    IF n = 1 THEN cells[<<0, slot>>]
    ELSE Apply(opcode, Reduce(opcode, cells, slot, n - 1), cells[<<n - 1, slot>>])

RECURSIVE ReduceLanes(_, _, _, _, _)
ReduceLanes(opcode, cells, lane, n, acc) ==
    IF lane > vec_size THEN acc
    ELSE ReduceLanes(opcode, cells, lane + 1, n,
                     Apply(opcode, acc,
                           Reduce(opcode, [c \in DOMAIN cells |->
                                              IF c[2] = "vector" THEN cells[c][lane] ELSE 0],
                                  "vector", n)))

ResultOf(r, code) ==
    IF BuilderKind.k = "VecMerger"
    THEN [i \in 1..VecLen |-> Reduce(Arith(code)[1], r.cells, i - 1, r.nworkers)]
    ELSE ReduceLanes(Arith(code)[3], r.cells, 1, r.nworkers,
                     Reduce(Arith(code)[1], r.cells, "scalar", r.nworkers))

RunResult ==
    /\ run.phase = "merge"
    /\ run.todo = <<>>
    /\ \A w \in DOMAIN run.workers : run.workers[w].pc = 0
    /\ run' = [run EXCEPT !.phase = "done", !.result = ResultOf(run, MainCode)]
    /\ UNCHANGED <<gen, hist, program, hash_order, call>>

NextMerge ==
    \/ RunNewBuilder
    \/ \E w \in DOMAIN run.workers : TakeIteration(w)
    \/ \E w \in DOMAIN run.workers : WorkerStep(w)
    \/ RunResult

SpecMerge == InitMerge /\ [][NextMerge]_vars

(***************************************************************************)
(* Properties of merging in parallel.                                      *)
(***************************************************************************)
HasArg == program.funcs[0].blocks[1].statements[1].has_arg

(* x (+) y in the arithmetic of the element type.                          *)
Combine(bk, x, y) ==
    CASE bk.op = "Add" /\ bk.a[1] = F32 -> RoundF(x + y)
      [] bk.op = "Multiply" /\ bk.a[1] = F32 -> RoundF(x * y)
      [] bk.op = "Add" -> (x + y) % Word
      [] bk.op = "Multiply" -> (x * y) % Word

RECURSIVE CombineAll(_, _, _)
CombineAll(bk, acc, values) ==
    IF values = <<>> THEN acc
    ELSE CombineAll(bk, Combine(bk, acc, Head(values)), Tail(values))

(* arg (+) every value merged, arg being the identity without an initial   *)
(* value.                                                                  *)
Expected ==
    CombineAll(BuilderKind,
               IF HasArg THEN InitialValue(BuilderKind)
               ELSE (IF BuilderKind.op = "Add" THEN 0 ELSE 1),
               Iterations(BuilderKind))

MergerDone == run.phase = "done" /\ BuilderKind.k = "Merger"

(* C13: for a Merger with + or * over a primitive type, with or without an *)
(* initial value, the value Res produces is arg (+) the combination of     *)
(* every value merged, for every number of workers and every assignment of *)
(* iterations to workers and interleaving of their merges.                 *)
C13_MergerResult == MergerDone => run.result = Expected

(* What holds of Res: the result is arg (+) the combination of the values  *)
(* merged when the element type is an integer, whose + and * wrap and are  *)
(* associative, and when one worker merges every value.                    *)
C13_MergerResultAsCoded ==
    (MergerDone /\ (BuilderKind.a[1] = I32 \/ run.nworkers = 1)) => run.result = Expected

(* C14: every Merge into a Merger or a VecMerger reads and writes only     *)
(* the cell selected by the thread id its function got from                *)
(* @my_id_public at its entry, so no cell is touched by two workers; and   *)
(* the merging function holds no fence, no atomic instruction and no call  *)
(* of a lock.                                                              *)
C14_OwnCellOnly ==
    /\ \A t \in run.touched : t.tid = my_id_public(t.by)
    /\ \A t, u \in run.touched : t.tid = u.tid => t.by = u.by
    /\ \A w \in DOMAIN run.workers :
          "%cur.tid" \in DOMAIN run.workers[w].regs =>
              run.workers[w].regs["%cur.tid"] = my_id_public(w)
    /\ \A k \in DOMAIN MergeCode :
          /\ MergeCode[k].op \notin {"fence", "cmpxchg", "atomicrmw", "load atomic",
                                     "store atomic"}
          /\ MergeCode[k].op = "call" =>
                \/ MergeCode[k].a = "@my_id_public"
                \/ \E suffix \in {".getPtrIndexed", ".scalarMergePtr", ".vectorMergePtr",
                                  ".merge_ptr"} : EndsWith(MergeCode[k].a, suffix)

(* C14 witness: two workers are inside the merging function at once, each  *)
(* having touched a cell, one of them past its store.                      *)
C14_Witness ==
    \E w, v \in DOMAIN run.workers :
        /\ w # v
        /\ run.workers[w].pc # 0 /\ run.workers[v].pc # 0
        /\ \E t, u \in run.touched : t.by = w /\ u.by = v
        /\ run.cells[<<my_id_public(w), IF BuilderKind.k = "VecMerger" THEN 0 ELSE "scalar">>]
              # InitialCells(run.nworkers, MainCode)[<<my_id_public(w),
                    IF BuilderKind.k = "VecMerger" THEN 0 ELSE "scalar">>]

(***************************************************************************)
(* Stack slots.                                                            *)
(***************************************************************************)
SlotsOf(def, name) == {j \in DOMAIN def.alloca_code : def.alloca_code[j].dst = name}

SirDefs == {<<k, fid>> \in (DOMAIN gen.body_code) \X (DOMAIN program.funcs) :
               gen.body_code[k].name = FnName(fid)}

Twice(func) == (DOMAIN func.params) \cap (DOMAIN func.locals)

(* C21: in every lowered function each parameter and each local of the     *)
(* SIR function has exactly one alloca; the allocas, also that of the loop *)
(* index requested after the stores of the parameters were emitted, are    *)
(* all in the section that precedes the code, which holds none; every      *)
(* parameter is stored from its .in register into its slot; and lowering a *)
(* function that requests a slot for a name twice fails and defines        *)
(* nothing.                                                                *)
C21_OneSlotPerSymbol ==
    /\ \A d \in SirDefs :
          LET def == gen.body_code[d[1]]
              func == program.funcs[d[2]]
          IN  /\ \A sym \in (DOMAIN func.params) \cup (DOMAIN func.locals) :
                    Cardinality(SlotsOf(def, llvm_symbol(sym))) = 1
              /\ \A j \in DOMAIN def.alloca_code :
                    /\ def.alloca_code[j].op = "alloca"
                    /\ SlotsOf(def, def.alloca_code[j].dst) = {j}
              /\ \A j \in DOMAIN def.code : def.code[j].op # "alloca"
              /\ \A sym \in DOMAIN func.params :
                    \E j \in DOMAIN def.code :
                        /\ def.code[j].op = "store"
                        /\ def.code[j].a = llvm_symbol(sym)
                        /\ def.code[j].args = <<llvm_symbol(sym) \o ".in">>
    /\ (call.op = "add_function" /\ call.inserted
           /\ Twice(program.funcs[call.fid]) # {}) =>
          (~call.ok /\ DefsNamed(FnName(call.fid)) = {})

(* C21 witness: a loop body has been lowered; it holds the slot of the     *)
(* loop index, requested after the stores of its parameters.               *)
C21_Witness ==
    \E d \in SirDefs :
        /\ SlotsOf(gen.body_code[d[1]], "%cur.idx") # {}
        /\ DOMAIN program.funcs[d[2]].params # {}
        /\ Len(gen.body_code[d[1]].alloca_code)
              = Cardinality((DOMAIN program.funcs[d[2]].params)
                            \cup (DOMAIN program.funcs[d[2]].locals)) + 1

(***************************************************************************)
(* Negate.                                                                 *)
(***************************************************************************)
NegateType == get_sym_ty(program.funcs[0], call.statement.output).ty

(* A constant that is a zero of a type: the integer literal for an integer *)
(* scalar, the floating-point literal for a float scalar, a vector         *)
(* constant for a SIMD type.                                               *)
IsZeroOf(literal, ty) ==
    CASE ty.k = "Scalar" /\ IsInt(ty.s) -> literal = "0"
      [] ty.k = "Scalar" /\ IsFloat(ty.s) -> literal = "0.0"
      [] ty.k = "Simd" -> literal = "zeroinitializer" \/ SubSeq(literal, 1, 1) = "<"
      [] OTHER -> FALSE

(* C22: for every type on which subtraction is supported, Negate emits     *)
(* 0 - x with a zero of the operand type: the integer zero for an integer  *)
(* scalar, the floating-point zero for F32 and F64, a zero of the vector   *)
(* type for a SIMD operand.                                                *)
C22_NegateZero ==
    (Lowered1({"Negate"}) /\ llvm_binop("Subtract", NegateType) # "") =>
        /\ call.ok
        /\ Len(Emitted) = 3
        /\ Emitted[2].op = llvm_binop("Subtract", NegateType)
        /\ Emitted[2].args = <<Emitted[1].dst>>
        /\ IsZeroOf(Emitted[2].a, NegateType)

(* What Negate emits: 0.0 - x for the scalars F32 and F64 and 0 - x for    *)
(* every other type with subtraction, the SIMD types included; an error    *)
(* after the load of the operand for a type without subtraction.           *)
C22_NegateAsCoded ==
    Lowered1({"Negate"}) =>
        IF llvm_binop("Subtract", NegateType) = "" THEN ~call.ok /\ Len(Emitted) = 1
        ELSE /\ call.ok
             /\ Emitted[2].op = llvm_binop("Subtract", NegateType)
             /\ Emitted[2].args = <<Emitted[1].dst>>
             /\ Emitted[2].a = (IF NegateType \in {Scalar("F32"), Scalar("F64")}
                                THEN "0.0" ELSE "0")
             /\ Emitted[3].op = "store" /\ Emitted[3].args = <<Emitted[2].dst>>

(***************************************************************************)
(* Comparison of vectors.                                                  *)
(***************************************************************************)
CmpResults == {-1, 0, 1}

IntOf(literal) == CHOOSE c \in CmpResults : ToString(c) = literal

(* The icmp predicate pred on the result c of .cmp and a value.            *)
Icmp(pred, c, value) ==
    CASE pred = "icmp eq" -> c = value
      [] pred = "icmp ne" -> c # value

(* c op 0.                                                                 *)
Compares(op_kind, c) ==
    CASE op_kind = "Equal" -> c = 0
      [] op_kind = "NotEqual" -> c # 0
      [] op_kind = "LessThan" -> c < 0
      [] op_kind = "LessThanOrEqual" -> c <= 0
      [] op_kind = "GreaterThan" -> c > 0
      [] op_kind = "GreaterThanOrEqual" -> c >= 0

VectorBinOp == Lowered1({"BinOp"}) /\ call.statement.ty.k = "Vector"

(* C23: a BinOp between two vectors with a comparison operator calls the   *)
(* .cmp helper on the two operands and emits a predicate on its result c   *)
(* that, for every c in {-1, 0, 1}, is true exactly when c op 0 is; with   *)
(* any other operator it is an error.                                      *)
C23_VectorComparison ==
    VectorBinOp =>
        IF call.statement.op \in Comparisons
        THEN /\ call.ok
             /\ Len(Emitted) = 5
             /\ Emitted[3].op = "call" /\ EndsWith(Emitted[3].a, ".cmp")
             /\ Emitted[3].args = <<Emitted[1].dst, Emitted[2].dst>>
             /\ Emitted[4].a = Emitted[3].dst
             /\ \A c \in CmpResults :
                   Icmp(Emitted[4].op, c, IntOf(Emitted[4].args[1]))
                      <=> Compares(call.statement.op, c)
             /\ Emitted[5].op = "store" /\ Emitted[5].args = <<Emitted[4].dst>>
        ELSE ~call.ok

(* C23 witness: a <= between vectors has been lowered, after another       *)
(* statement.                                                              *)
C23_Witness ==
    /\ VectorBinOp /\ call.ok /\ call.n = 2
    /\ call.statement.op = "LessThanOrEqual"
    /\ Emitted[4].op = "icmp ne"


(***************************************************************************)
(* The loop machine: a wrapper dispatches its loop, the loop body is       *)
(* invoked over sub-ranges of [0, num_iters) and executed an instruction   *)
(* at a time, and the continuation's own loop, if it has one, follows.     *)
(* hist is the log of what the body does: its invocations, the iterations  *)
(* it starts, the elements it reads, the entries into the SIR blocks and   *)
(* the stores to %cur.idx.                                                 *)
(***************************************************************************)
MaxInvocations == 2

LoopLens == {0, 2, 5, 9}
OtherLoopLens == {2, 5, 9}
LoopStrides == {1, 2}

(* The loops whose bodies are executed.                                    *)
BodyLoops ==
    { Loop(<<ScalarIter(sym_v)>>, TRUE),
      Loop(<<ScalarIter(sym_v)>>, FALSE),
      Loop(<<WithStart(ScalarIter(sym_v))>>, FALSE),
      Loop(<<ScalarIter(sym_v), ScalarIter(sym_w)>>, TRUE),
      Loop(<<ScalarIter(sym_v), WithStart(ScalarIter(sym_w))>>, FALSE),
      Loop(<<FringeIter(sym_v)>>, FALSE),
      Loop(<<FringeIter(sym_v), FringeIter(sym_w)>>, TRUE),
      Loop(<<SimdIter(sym_v)>>, TRUE),
      Loop(<<SimdIter(sym_v)>>, FALSE) }

(* for(simd(v)) followed by for(fringe(v)): the continuation f2 of the     *)
(* first loop ends with the second loop, of body f3 and continuation f4.   *)
SimdFringeProgram(innermost) ==
    LET simd == ParallelForData(1, 2, <<SimdIter(sym_v)>>, sym_b, sym_ba, sym_i, sym_e,
                                innermost)
        fringe == ParallelForData(3, 4, <<FringeIter(sym_v)>>, sym_b, sym_ba, sym_i, sym_e,
                                  innermost)
    IN  [funcs |-> (0 :> Func0(<<>>, ParallelFor(simd)))
                   @@ (1 :> Func1(simd))
                   @@ (2 :> [Func1(fringe) EXCEPT !.id = 2,
                               !.blocks = <<BasicBlock(0, <<>>, ParallelFor(fringe))>>])
                   @@ (3 :> [Func1(fringe) EXCEPT !.id = 3])
                   @@ (4 :> [Func2(<<>>, EndFunction) EXCEPT !.id = 4]),
         top_params |-> NoProgram.top_params]

LoopPrograms ==
    {LoopProgram(pf) : pf \in BodyLoops} \cup {SimdFringeProgram(b) : b \in BOOLEAN}

(* The ParallelFor a function ends with, if it ends with one.              *)
EndsWithLoop(sir, fid) == sir.funcs[fid].blocks[1].terminator.t = "ParallelFor"

LoopAt(sir, fid) == sir.funcs[fid].blocks[1].terminator.pf

(* The loop whose body is the function named fn.                           *)
LoopOfBody(sir, fn) ==
    LoopAt(sir, CHOOSE f \in DOMAIN sir.funcs :
                    EndsWithLoop(sir, f) /\ FnName(LoopAt(sir, f).body) = fn)

(* The value of every symbol of the program: a vector is its length.       *)
SymbolValue(lv, lw, start, end, stride) ==
    [name \in {"v", "w", "start", "end", "stride"} |->
        CASE name = "v" -> lv [] name = "w" -> lw [] name = "start" -> start
          [] name = "end" -> end [] name = "stride" -> stride]

ValueOf(values, symbol) ==
    IF symbol.name \in DOMAIN values THEN values[symbol.name] ELSE Handle(symbol)

(* The registers a function is entered with, for its parameters params.    *)
ArgRegs(values, params, suffix) ==
    [n \in {llvm_symbol(p) \o suffix : p \in DOMAIN params} |->
        ValueOf(values, CHOOSE p \in DOMAIN params : llvm_symbol(p) \o suffix = n)]

EnterWrapper(r, sir, pf) ==
    [r EXCEPT !.fn = FnName(pf.body) \o "_wrapper", !.pc = 1,
              !.regs = ArgRegs(r.input, get_combined_params(sir, pf), "")
                          @@ ("%cur.work" :> 0),
              !.sregs = <<>>, !.rt = NoLoop, !.trace = <<>>]

InitLoop ==
    /\ hist = <<>>
    /\ call = NoCall
    /\ program \in LoopPrograms
    /\ hash_order \in HashOrders
    /\ Lowered(program, hash_order).ok
    /\ gen = Lowered(program, hash_order).g
    /\ \E lv \in LoopLens, lw \in OtherLoopLens, start \in Starts, end \in Ends,
          stride \in LoopStrides :
          LET pf == LoopAt(program, 0)
              used(field) == \E k \in DOMAIN pf.data : pf.data[k][field] # NoSym
          IN  /\ (sym_w \notin Names(pf, "data")) => lw = 2
              /\ (~used("start")) => (start = 0 /\ end = 0 /\ stride = 1)
              /\ run = EnterWrapper([NoRun EXCEPT
                                        !.input = SymbolValue(lv, lw, start, end, stride)],
                                    program, pf)

(* The wrapper, executed to its ret.  No stride of the machine is zero, so *)
(* no division of the wrapper is undefined.                                *)
RECURSIVE RunToRet(_, _)
RunToRet(r, code) ==
    IF r.fn = "" THEN r ELSE RunToRet(Exec(r, code[r.pc], code, 0), code)

(* The call of the loop body in for.ser, if the wrapper made it.           *)
SerialCalls(r, body) == {k \in DOMAIN r.trace : r.trace[k].fn = "@" \o body}

(* The wrapper runs: it fails its bounds check, or calls the body over     *)
(* [0, num_iters) itself (grain 0 below), or hands the loop to the         *)
(* runtime.                                                                *)
WrapperDispatch ==
    /\ run.fn # ""
    /\ EndsWith(run.fn, "_wrapper")
    /\ LET body == SubSeq(run.fn, 1, Len(run.fn) - Len("_wrapper"))
           r == RunToRet(run, Def(gen, run.fn).code)
           ser == SerialCalls(r, body)
       IN  run' = IF r.rt.phase = "body" THEN [r EXCEPT !.rt.body = body]
                  ELSE IF ser # {}
                  THEN LET e == r.trace[CHOOSE k \in ser : TRUE]
                       IN  [r EXCEPT !.rt = [NoLoop EXCEPT
                                               !.phase = "body", !.body = body,
                                               !.next = e.args[Len(e.args) - 1],
                                               !.upper = e.args[Len(e.args)]]]
                  ELSE r
    /\ UNCHANGED <<gen, hist, program, hash_order, call>>

(* The sub-range the next invocation of the body is given.                 *)
SubRanges(rt) ==
    IF rt.grain = 0 \/ rt.tasks + 1 >= MaxInvocations THEN {rt.upper}
    ELSE rt.next..rt.upper

LogEntry(fn, ev, a, b) == [fn |-> fn, ev |-> ev, a |-> a, b |-> b]

(* The body is invoked over [next, hi): by the wrapper, or by the runtime  *)
(* through the body trampoline.                                            *)
InvokeBody ==
    /\ run.fn = ""
    /\ run.rt.phase = "body"
    /\ run.rt.next < run.rt.upper \/ run.rt.tasks = 0
    /\ \E hi \in SubRanges(run.rt) :
          /\ run' = [run EXCEPT
                        !.fn = run.rt.body, !.pc = 1, !.sregs = <<>>,
                        !.regs = ArgRegs(run.input,
                                         program.funcs[LoopOfBody(program, run.rt.body).body].params,
                                         ".in")
                                    @@ ("%cur.work" :> 0)
                                    @@ ("%lower.idx" :> run.rt.next)
                                    @@ ("%upper.idx" :> hi),
                        !.rt.next = hi, !.rt.tasks = @ + 1]
          /\ hist' = Append(hist, LogEntry(run.rt.body, "invoke", run.rt.next, hi))
    /\ UNCHANGED <<gen, program, hash_order, call>>

(* One instruction of a loop body.  A stack slot is the register of its    *)
(* name, which holds what was stored last; an element pointer holds the    *)
(* index of its element.                                                   *)
ExecLoop(r, instr, code) ==
    CASE instr.op = "store" ->
            IF instr.args[1] \in DOMAIN r.sregs
            THEN [r EXCEPT !.sregs = (instr.a :> r.sregs[instr.args[1]]) @@ @, !.pc = @ + 1]
            ELSE SetReg(r, instr.a, Val(r.regs, instr.args[1]))
      [] instr.op = "load" ->
            IF instr.a \in DOMAIN r.sregs
            THEN [r EXCEPT !.sregs = (instr.dst :> r.sregs[instr.a]) @@ @, !.pc = @ + 1]
            ELSE SetReg(r, instr.dst, r.regs[instr.a])
      [] instr.op = "store.field" ->
            [r EXCEPT !.work.idx = Val(r.regs, instr.args[2]), !.pc = @ + 1]
      [] instr.op = "call" /\ (EndsWith(instr.a, ".at") \/ EndsWith(instr.a, ".vat")) ->
            SetReg(r, instr.dst, Val(r.regs, instr.args[2]))
      [] instr.op = "call" /\ instr.a = "@my_id_public" -> SetReg(r, instr.dst, 0)
      [] OTHER -> Exec(r, instr, code, 0)

(* The label an instruction is under.                                      *)
LastLabel(code, pc) ==
    LET before == {k \in 1..pc : code[k].op = "label"}
    IN  IF before = {} THEN "" ELSE code[CHOOSE k \in before : \A j \in before : j <= k].a

(* What an instruction of the body adds to the log.                        *)
Observe(r, instr, code) ==
    CASE instr.op = "br.cond" /\ instr.args[1] = "%loop.body" /\ r.regs[instr.a] = 1 ->
            <<LogEntry(r.fn, "iteration", r.regs["%cur.idx"], 0)>>
      [] instr.op = "call" /\ EndsWith(instr.a, ".at") ->
            <<LogEntry(r.fn, "at", Val(r.regs, instr.args[2]), Val(r.regs, instr.args[1]))>>
      [] instr.op = "call" /\ EndsWith(instr.a, ".vat") ->
            <<LogEntry(r.fn, "vat", Val(r.regs, instr.args[2]), Val(r.regs, instr.args[1]))>>
      [] instr.op = "br" /\ instr.a = "%b.b0" ->
            <<LogEntry(r.fn, "body", r.regs["%i"], r.regs["%cur.idx"])>>
      [] instr.op = "store" /\ instr.a = "%cur.idx" ->
            <<LogEntry(r.fn, "idx", Val(r.regs, instr.args[1]), LastLabel(code, r.pc))>>
      [] instr.op = "ret" -> <<LogEntry(r.fn, "ret", 0, 0)>>
      [] OTHER -> <<>>

BodyStep ==
    /\ run.fn # ""
    /\ ~EndsWith(run.fn, "_wrapper")
    /\ LET code == Def(gen, run.fn).code
       IN  /\ run' = ExecLoop(run, code[run.pc], code)
           /\ hist' = hist \o Observe(run, code[run.pc], code)
    /\ UNCHANGED <<gen, program, hash_order, call>>

(* Every invocation of the body has returned: the continuation runs, and   *)
(* calls the wrapper of its own loop if it ends with one.                  *)
Continue ==
    /\ run.fn = ""
    /\ run.rt.phase = "body"
    /\ run.rt.next >= run.rt.upper /\ run.rt.tasks > 0
    /\ LET cont == LoopOfBody(program, run.rt.body).cont
       IN  run' = IF EndsWithLoop(program, cont)
                  THEN EnterWrapper(run, program, LoopAt(program, cont))
                  ELSE [run EXCEPT !.rt.phase = "cont"]
    /\ hist' = Append(hist, LogEntry(run.rt.body, "cont", 0, 0))
    /\ UNCHANGED <<gen, program, hash_order, call>>

NextLoop == WrapperDispatch \/ InvokeBody \/ BodyStep \/ Continue

SpecLoop == InitLoop /\ [][NextLoop]_vars


(* The loop machine with the body executing to its end once invoked.       *)
SpecLoopFair == SpecLoop /\ WF_vars(BodyStep)

(***************************************************************************)
(* Iterations of a loop body.                                              *)
(***************************************************************************)
Invocations == {p \in DOMAIN hist : hist[p].ev = "invoke"}

Returned(p) == \E q \in DOMAIN hist : q > p /\ hist[q].ev = "ret"

(* The log of the invocation that starts at p: up to its ret, or to the    *)
(* end of the log.                                                         *)
LogOf(p) ==
    LET rets == {q \in DOMAIN hist : q > p /\ hist[q].ev = "ret"}
    IN  SubSeq(hist, p + 1,
               IF rets = {} THEN Len(hist) ELSE CHOOSE q \in rets : \A j \in rets : q <= j)

Entries(p, ev) == SelectSeq(LogOf(p), LAMBDA e : e.ev = ev)

FirstIsSimd(p) == LoopOfBody(program, hist[p].fn).data[1].kind = "SimdIter"

Width(p) == IF FirstIsSimd(p) THEN vec_size ELSE 1

(* The values of idx of the invocation that starts at p.                   *)
IdxOf(p) ==
    [k \in 1..((hist[p].b - hist[p].a) \div Width(p)) |-> hist[p].a + (k - 1) * Width(p)]

InBody == run.fn # "" /\ ~EndsWith(run.fn, "_wrapper")

(* What the body has done so far is the beginning of what it is to do: the *)
(* SIR blocks entered with idx = lower, lower + N, ... in this order, the  *)
(* index symbol and %cur.idx equal to idx at each entry; %cur.idx stored   *)
(* at entry, and then by N more at loop.terminator only; and all of them   *)
(* once the body has returned.                                             *)
IterationsOf(p) ==
    LET bodies == Entries(p, "body")
        stores == Entries(p, "idx")
    IN  /\ Len(bodies) <= Len(IdxOf(p))
        /\ \A k \in DOMAIN bodies : bodies[k].a = IdxOf(p)[k] /\ bodies[k].b = IdxOf(p)[k]
        /\ \A k \in DOMAIN stores :
              IF k = 1 THEN stores[k].a = hist[p].a /\ stores[k].b = ""
              ELSE stores[k].a = stores[k - 1].a + Width(p)
                   /\ stores[k].b = "loop.terminator"
        /\ Len(stores) <= Len(bodies) + 1
        /\ Returned(p) => (Len(bodies) = Len(IdxOf(p)) /\ Len(stores) = Len(bodies) + 1)

(* C24: a loop body invoked with [lower, upper), lower <= upper, returns;  *)
(* it enters the SIR blocks once for each idx = lower, lower + 1, ...,     *)
(* upper - 1 in ascending order when its first iterator is scalar or       *)
(* fringe, and for idx = lower, lower + N, ... exactly while               *)
(* idx + N <= upper (N = 4) when it is SIMD; the index symbol holds idx at *)
(* each entry, and %cur.idx is advanced at loop.terminator only.           *)
C24_LoopIterations ==
    /\ [](\A p \in Invocations : IterationsOf(p))
    /\ (InBody ~> run.fn = "")

(* A SIMD body that has returned from a range starting above 0, after two  *)
(* iterations.                                                             *)
C24_Witness ==
    \E p \in Invocations :
        /\ Returned(p) /\ FirstIsSimd(p)
        /\ hist[p].a > 0
        /\ Len(Entries(p, "body")) = 2


(***************************************************************************)
(* Elements read by a loop body.                                           *)
(***************************************************************************)
Reads == {k \in DOMAIN hist : hist[k].ev \in {"at", "vat"}}

(* The position, among the iterators of its loop, of the iterator a read   *)
(* is for: the reads of an iteration are in the order of the iterators.    *)
ReadPos(k) ==
    LET starts == {j \in 1..k : hist[j].ev = "iteration"}
        start == CHOOSE j \in starts : \A i \in starts : i <= j
    IN  Cardinality({j \in Reads : start < j /\ j <= k})

ReadIter(k) == LoopOfBody(program, hist[k].fn).data[ReadPos(k)]

(* C25: when the bounds check of the wrapper passes, the element index the *)
(* body computes for each iterator, in every iteration it is invoked for,  *)
(* is below the size of the iterator's vector.                             *)
C25_ReadsInBounds == \A k \in Reads : hist[k].a < hist[k].b

(* What holds: the index is below the size for every iterator but a        *)
(* FringeIter after the first, and all lanes of a SIMD read are; the index *)
(* of a later FringeIter is (size / 4) * 4 + idx of its own vector.        *)
C25_ReadsAsCoded ==
    \A k \in Reads :
        /\ (ReadPos(k) = 1 \/ ReadIter(k).kind # "FringeIter") => hist[k].a < hist[k].b
        /\ hist[k].ev = "vat" => hist[k].a + vec_size <= hist[k].b
        /\ (ReadPos(k) > 1 /\ ReadIter(k).kind = "FringeIter") =>
              \E j \in 1..k : /\ hist[j].ev = "iteration"
                              /\ hist[k].a = (hist[k].b \div vec_size) * vec_size + hist[j].a


(***************************************************************************)
(* A SIMD loop and the fringe loop after it.                               *)
(***************************************************************************)
LoopsDone == program \in {SimdFringeProgram(b) : b \in BOOLEAN} /\ run.rt.phase = "cont"

(* The reads of element i: a SIMD read at index a is of the elements       *)
(* a .. a + 3.                                                             *)
Covering(i) ==
    {k \in Reads : hist[k].a <= i
                   /\ i < hist[k].a + (IF hist[k].ev = "vat" THEN vec_size ELSE 1)}

(* C26: for a vector of n elements, once the SIMD loop and the fringe loop *)
(* after it are over, every index in [0, n) was read by exactly one        *)
(* iteration of exactly one of the two loops, whatever disjoint sub-ranges *)
(* of [0, num_iters) the invocations of each body were given.              *)
C26_EachIndexOnce ==
    LoopsDone => \A i \in 0..(run.input.v - 1) : Cardinality(Covering(i)) = 1

(* Every sub-range of the SIMD loop starts at a multiple of 4 and ends at  *)
(* one, or at n.                                                           *)
Aligned ==
    \A p \in Invocations :
        FirstIsSimd(p) => /\ hist[p].a % vec_size = 0
                          /\ hist[p].b % vec_size = 0 \/ hist[p].b = run.input.v

(* What holds: every index is read exactly once when the sub-ranges of the *)
(* SIMD loop are aligned to 4.                                             *)
C26_EachIndexOnceAligned ==
    (LoopsDone /\ Aligned) => \A i \in 0..(run.input.v - 1) : Cardinality(Covering(i)) = 1


(***************************************************************************)
(* visited and the body buffer.                                            *)
(***************************************************************************)
Defined(fid) == DefsNamed(FnName(fid)) # {}

(* C27: whenever add_function has returned, with Ok or with an error,      *)
(* every id in visited has its definition @f<id> in the body buffer; an    *)
(* add_function for a function whose lowering failed earlier does not      *)
(* return Ok while the function has no definition.                         *)
C27_VisitedDefined ==
    call.op = "add_function" =>
        /\ \A fid \in gen.visited : Defined(fid)
        /\ call.ok => Defined(call.fid)

(* What holds: a defined function is in visited; a call that inserts the   *)
(* id and returns Ok leaves the definition; a call for an id already in    *)
(* visited returns Ok and leaves the body buffer as it is, whether or not  *)
(* the function is defined.                                                *)
C27_VisitedAsCoded ==
    call.op = "add_function" =>
        /\ \A fid \in DOMAIN program.funcs : Defined(fid) => fid \in gen.visited
        /\ (call.inserted /\ call.ok) => Defined(call.fid)
        /\ ~call.inserted => (call.ok /\ Len(gen.body_code) = call.before)


(***************************************************************************)
(* The names generated in one function: statements with block labels,      *)
(* lowered one after another into one FunctionContext until it holds       *)
(* MaxTemporaries temporaries.                                             *)
(***************************************************************************)
MaxTemporaries == 100

NameFunction ==
    SirFunction(0, <<>>,
        (sym_a :> Merger(I32, "Add")) @@ (sym_x :> I32)
        @@ (sym_b :> VecMerger(I32, "Add")) @@ (sym_v :> Vector(I32)),
        <<>>)

NameStatements ==
    {NewBuilder(sym_a, NoSym, Merger(I32, "Add")), Result(sym_x, sym_a), Result(sym_v, sym_b)}

InitNames ==
    /\ gen = NewGenerator
    /\ hist = <<>>
    /\ program = [funcs |-> (0 :> NameFunction), top_params |-> <<>>]
    /\ hash_order = "asc"
    /\ call = NoStatement
    /\ run = NoRun

GenNamedStatement(statement) ==
    /\ call.ctx.var_ids < MaxTemporaries
    /\ call.ok
    /\ LET r == Run(St(gen, call.ctx, TRUE, NoEnv),
                    gen_statement(statement, program.funcs[0]), program, hash_order)
       IN  /\ gen' = r.g
           /\ call' = [op |-> "gen_statement", statement |-> statement, ok |-> r.ok,
                       ctx |-> r.ctx, before |-> Len(call.ctx.code),
                       prelude_before |-> Len(gen.prelude_code), n |-> call.n + 1]
    /\ UNCHANGED <<hist, program, hash_order, run>>

NextNames == \E statement \in NameStatements : GenNamedStatement(statement)

SpecNames == InitNames /\ [][NextNames]_vars

(* The temporaries of the function, without the leading %.                 *)
Temporaries == {StripPercent(IdGeneratorNext("%t.t", k)) : k \in 0..(call.ctx.var_ids - 1)}

(* The block labels an instruction defines: those of the template it is.   *)
LabelsOf(instr) ==
    CASE instr.op = "init_merger.ll" -> SubSeq(instr.args, 3, 5)
      [] instr.op = "merger_result_start.ll" -> SubSeq(instr.args, 5, 7)
      [] instr.op = "merger_result_end_vectorized_1.ll" -> SubSeq(instr.args, 8, 10)
      [] instr.op = "vecmerger_result_start.ll" -> SubSeq(instr.args, 3, 8)
      [] OTHER -> <<>>

BlockLabels == Concat([k \in DOMAIN call.ctx.code |-> LabelsOf(call.ctx.code[k])])

(* C28: the local names generated in one function are pairwise distinct,   *)
(* however many statements it has: the temporaries are, the block labels   *)
(* of Merger NewBuilder, Merger Res and VecMerger Res are, and no such     *)
(* label is, without the leading %, the name of a temporary.               *)
C28_DistinctNames ==
    /\ Cardinality(Temporaries) = call.ctx.var_ids
    /\ \A i, j \in DOMAIN BlockLabels : i # j => BlockLabels[i] # BlockLabels[j]
    /\ \A i \in DOMAIN BlockLabels : BlockLabels[i] \notin Temporaries

(* What holds: temporaries are pairwise distinct and labels are; a label   *)
(* is the name of its label_base temporary followed by a digit, so it is   *)
(* the name of no temporary in a function of at most 100 temporaries.      *)
C28_DistinctNamesAsCoded ==
    LET labels == BlockLabels
        followed == {t \o ToString(d) : t \in Temporaries, d \in 0..5}
    IN  /\ Cardinality(Temporaries) = call.ctx.var_ids
        /\ \A i, j \in DOMAIN labels : i # j => labels[i] # labels[j]
        /\ call.ctx.var_ids <= 100 => \A i \in DOMAIN labels : labels[i] \notin Temporaries
        /\ \A i \in DOMAIN labels : labels[i] \in followed


(***************************************************************************)
(* Lowering calls on programs whose functions refer to each other in       *)
(* other ways than one loop and one jump: two loops with one continuation, *)
(* a loop body that is a jump target as well, cycles of jumps and of       *)
(* loops, a loop after a loop, and a function whose lowering fails.        *)
(***************************************************************************)
PlainLoop == Loop(<<ScalarIter(sym_v)>>, TRUE)

(* f0: if (i) for(.., f1, f2) else for(.., f3, f2)                         *)
SharedContProgram ==
    LET other == [PlainLoop EXCEPT !.body = 3]
    IN  [funcs |-> (0 :> [Func0(<<>>, EndFunction) EXCEPT
                             !.blocks = <<BasicBlock(0, <<>>, Branch(sym_i, 1, 2)),
                                          BasicBlock(1, <<>>, ParallelFor(PlainLoop)),
                                          BasicBlock(2, <<>>, ParallelFor(other))>>])
                   @@ (1 :> Func1(PlainLoop))
                   @@ (2 :> Func2(<<>>, EndFunction))
                   @@ (3 :> [Func1(other) EXCEPT !.id = 3]),
         top_params |-> NoProgram.top_params]

(* f0: if (i) jump f1 else for(.., f1, f2)                                 *)
BodyAsTargetProgram ==
    SirProgram([Func0(<<>>, EndFunction) EXCEPT
                   !.blocks = <<BasicBlock(0, <<>>, Branch(sym_i, 1, 2)),
                                BasicBlock(1, <<>>, JumpFunction(1)),
                                BasicBlock(2, <<>>, ParallelFor(PlainLoop))>>],
               Func1(PlainLoop), Func2(<<>>, EndFunction))

GraphPrograms ==
    { LoopProgram(PlainLoop),
      SharedContProgram,
      BodyAsTargetProgram,
      SimdFringeProgram(TRUE),
      SirProgram(Func0(<<>>, JumpFunction(2)), Func1(PlainLoop), Func2(<<>>, JumpFunction(0))),
      SirProgram(Func0(<<>>, JumpFunction(0)), Func1(PlainLoop), Func2(<<>>, EndFunction)),
      SirProgram(Func0(<<>>, ParallelFor(PlainLoop)), Func1(PlainLoop),
                 Func2(<<>>, ParallelFor(PlainLoop))),
      SirProgram(Func0(<<>>, JumpFunction(2)), Func1(PlainLoop), Func2(<<LogBad>>, EndFunction)) }

InitGraph ==
    /\ gen = NewGenerator
    /\ hist = <<>>
    /\ program \in GraphPrograms
    /\ hash_order \in HashOrders
    /\ call = NoCall
    /\ run = NoRun

SpecGraph == InitGraph /\ [][NextGen]_vars

(***************************************************************************)
(* Wrappers and trampolines of a module.                                   *)
(***************************************************************************)
Calls == UNION {{gen.body_code[k].code[j] : j \in DOMAIN gen.body_code[k].code}
                   : k \in DOMAIN gen.body_code}

(* The functions the emitted code refers to as a wrapper it calls or as a  *)
(* trampoline it passes to the runtime.                                    *)
Referred ==
    {StripPercent(SubSeq(c.a, 2, Len(c.a))) : c \in {i \in Calls : i.op = "call"
                                                        /\ EndsWith(i.a, "_wrapper")}}
    \cup UNION {{SubSeq(c.args[4], 2, Len(c.args[4])), SubSeq(c.args[5], 2, Len(c.args[5]))}
                   : c \in {i \in Calls : i.op = "call" /\ i.a = "@pl_start_loop"}}
    \cup {SubSeq(c.args[1], 2, Len(c.args[1])) : c \in {i \in Calls : i.op = "call"
                                                          /\ i.a = "@execute"}}

Helpers29 ==
    {FnName(fid) \o suffix : fid \in DOMAIN program.funcs, suffix \in {"_wrapper", "_par"}}

ModuleLowered == call.op = "add_function_on_pointers" /\ call.ok /\ call.n = 1

(* C29: after add_function_on_pointers has succeeded, every @f<id>_wrapper *)
(* and every @f<id>_par is defined at most once in the body buffer, and    *)
(* every wrapper that is called and every trampoline that is passed to     *)
(* @pl_start_loop or to @execute is defined.                               *)
C29_HelpersDefinedOnce ==
    ModuleLowered =>
        /\ \A name \in Helpers29 : Cardinality(DefsNamed(name)) <= 1
        /\ \A name \in Referred : DefsNamed(name) # {}

(* What holds: the wrapper and the body trampoline of a function are       *)
(* defined once if its first lowering was as a loop body and not at all    *)
(* otherwise, and the continuation trampoline is defined once for every    *)
(* loop body so lowered that names the continuation.                       *)
C29_HelpersAsCoded ==
    ModuleLowered =>
        \A fid \in DOMAIN program.funcs :
            /\ Cardinality(DefsNamed(FnName(fid) \o "_wrapper")) <= 1
            /\ Cardinality(DefsNamed(FnName(fid) \o "_par"))
                  = Cardinality(DefsNamed(FnName(fid) \o "_wrapper"))
                    + Cardinality({b \in DOMAIN program.funcs :
                                      /\ DefsNamed(FnName(b) \o "_wrapper") # {}
                                      /\ \E pf \in LoopsOf(program) :
                                            pf.body = b /\ pf.cont = fid})
                    + (IF fid = 0 THEN 1 ELSE 0)


(***************************************************************************)
(* The functions add_function reaches.                                     *)
(***************************************************************************)

(* The functions a function refers to, in the order its lowering asks for  *)
(* them: for each block in turn, continuation then body of a ParallelFor,  *)
(* the target of a JumpFunction.                                           *)
Refs(sir, fid) ==
    Concat([k \in DOMAIN sir.funcs[fid].blocks |->
        LET t == sir.funcs[fid].blocks[k].terminator
        IN  CASE t.t = "ParallelFor" -> <<t.pf.cont, t.pf.body>>
              [] t.t = "JumpFunction" -> <<t.f>>
              [] OTHER -> <<>>])

(* The functions reached from a function, each with the function that      *)
(* referred to it first.                                                   *)
RECURSIVE Reach(_, _, _, _)
Reach(sir, fid, refs, acc) ==
    IF refs = <<>> THEN acc
    ELSE IF refs[1] \in acc.seen THEN Reach(sir, fid, Tail(refs), acc)
    ELSE Reach(sir, fid, Tail(refs),
               Reach(sir, refs[1], Refs(sir, refs[1]),
                     [seen |-> acc.seen \cup {refs[1]},
                      first |-> (refs[1] :> fid) @@ acc.first]))

Reached30 == Reach(program, call.fid, Refs(program, call.fid),
                   [seen |-> {call.fid}, first |-> <<>>])

DefAt(fid) == CHOOSE k \in DefsNamed(FnName(fid)) : TRUE

(* C30: add_function returns on every program, cyclic or not, and when it  *)
(* returns Ok every function reachable from the requested one has exactly  *)
(* one definition in the body buffer, the definition of each callee before *)
(* that of the function that referred to it first.                         *)
C30_ReachableDefinedInOrder ==
    (call.op = "add_function" /\ call.ok) =>
        /\ \A fid \in Reached30.seen : Cardinality(DefsNamed(FnName(fid))) = 1
        /\ \A fid \in DOMAIN Reached30.first : DefAt(fid) < DefAt(Reached30.first[fid])

(* What holds: the same for a call on a generator no call of which has     *)
(* failed before and that inserts the id.                                  *)
C30_ReachableAsCoded ==
    (call.op = "add_function" /\ call.ok /\ call.inserted /\ call.n = 1) =>
        /\ \A fid \in Reached30.seen : Cardinality(DefsNamed(FnName(fid))) = 1
        /\ \A fid \in DOMAIN Reached30.first : DefAt(fid) < DefAt(Reached30.first[fid])

====
